---- MODULE Spec2Model ----
(***************************************************************************)
(* burnrate: the session ledger and tool registry of internal/tracker,     *)
(* with the callers that feed it.                                          *)
(*                                                                         *)
(* Spec models tracker.Tracker under concurrent callers at the granularity *)
(* of single reads and writes of its fields, with sync.RWMutex as Go       *)
(* implements it (a writer that has announced itself blocks new readers).  *)
(* Slices are headers (arr, len, cap) over backing arrays kept in heap, so *)
(* that sharing of a backing array is a fact of the state.                 *)
(* Money is counted in whole units, time in quanta of the process clock.   *)
(***************************************************************************)
EXTENDS Integers, Sequences, FiniteSets, TLC

\* ------------------------------------------------------------------ bounds
MaxTime == 2
MaxCalls == 2
QuantaPerHour == 2
MaxEvents == 1
MaxFaults == 1
MaxPolls == 3

\* The concurrent callers of tracker.Global: tasks that change the ledger (the
\* watcher goroutines, a reset) and a task that reads it (the TUI loop).
Writers == {"w1", "w2"}
Readers == {"ui"}
Tasks == Writers \cup Readers

\* Arguments the callers pass to AddUsage / AddUsageWithTool.
UsageArgs ==
    { [tool |-> "", model |-> "gpt-4o", prompt |-> 1, completion |-> 0, cost |-> 1] }
ToolArgs ==
    { [tool |-> "Crush", model |-> "sonnet", prompt |-> 1, completion |-> 1, cost |-> 2] }

VARIABLES
    now,            \* the process clock (time.Now, monotonic reading)
    mu,             \* Tracker.mu: [w: the writer that announced, r: read locks held per task]
    SessionCost,    \* Tracker.SessionCost
    SessionUsages,  \* Tracker.SessionUsages: a slice header
    StartTime,      \* Tracker.StartTime
    heap,           \* backing arrays of []Usage slices, by array id
    DB,             \* storage.DB: "nil" or "open"
    usage_events,   \* rows of the usage_events table
    pc,             \* per task: the statement it is at
    arg,            \* per task: the arguments of its AddUsage / AddUsageWithTool call
    loc,            \* per task: the locals of the call in progress
    ret,            \* per task: the value its last read returned
    obs,            \* history the properties refer to; no action reads it to decide anything
    ToolStatuses,   \* Tracker.ToolStatuses: tool name -> pointer
    toolHeap,       \* the ToolStatus objects the pointers lead to, by address
    reported,       \* history: the calls of SetToolStatus counted, and the last argument
    fs,             \* the files the parsers read: Aider's log, Crush's database,
                    \* OpenCode's message files
    events,         \* per watcher: its fsnotify Events channel
    wpc,            \* the statement main and each watcher goroutine is at
    wloc,           \* their locals
    processedMessageIDs,    \* parser.processedMessageIDs (OpenCode)
    processedAiderEvents,   \* parser.processedAiderEvents
    processedCrushSessions, \* parser.processedCrushSessions: session id -> updated_at
    held,           \* the pointers the TUI got from its last registry read
    seen,           \* history the properties refer to
    tui,            \* the TUI: the model bubbletea holds and the Update call in progress
    cli,            \* a run of the whatif command: its position, its storage.DB, its output
    pricing         \* package pricing: the table, lastFetchTime, fetchMutex, and the
                    \* goroutine that runs UpdatePricing

ledger == <<SessionCost, SessionUsages, StartTime, heap>>
store == <<DB, usage_events>>
tasks == <<mu, pc, arg, loc, ret, obs>>
registry == <<ToolStatuses, toolHeap, reported>>
parsers == <<processedMessageIDs, processedAiderEvents, processedCrushSessions>>
dash == <<ToolStatuses, toolHeap, reported, fs, events, wpc, wloc, processedMessageIDs,
          processedAiderEvents, processedCrushSessions, held, seen>>
views == <<tui, cli, pricing>>
watch == <<dash, views>>
vars == <<now, mu, SessionCost, SessionUsages, StartTime, heap, DB, usage_events,
          pc, arg, loc, ret, obs, ToolStatuses, toolHeap, reported, fs, events, wpc, wloc,
          processedMessageIDs, processedAiderEvents, processedCrushSessions, held, seen,
          tui, cli, pricing>>

\* ------------------------------------------------------------------ values
NoArg == [tool |-> "", model |-> "", prompt |-> 0, completion |-> 0, cost |-> 0]

\* The zero value of Usage (time.Time{} is before every clock reading).
ZeroUsage ==
    [Model |-> "", PromptTokens |-> 0, CompletionTokens |-> 0, TotalTokens |-> 0,
     Cost |-> 0, Timestamp |-> 0]

NilSlice == [arr |-> 0, len |-> 0, cap |-> 0]

\* A float64 quotient, kept exact as numerator and denominator.
ZeroRate == [num |-> 0, den |-> 1]
RateEq(a, b) == a.num * b.den = b.num * a.den

NoLoc == [usage |-> ZeroUsage, s |-> NilSlice, c |-> 0, d |-> 0,
          rate |-> ZeroRate, nested |-> FALSE, window |-> ""]

NoRet == [kind |-> "none"]

Zeros(n) == [i \in 1..n |-> ZeroUsage]

\* The elements a slice header shows, in heap h.
ElemsIn(h, s) == IF s.len = 0 THEN <<>> ELSE SubSeq(h[s.arr], 1, s.len)
Elems(s) == ElemsIn(heap, s)

RECURSIVE SumCost(_)
SumCost(us) == IF us = <<>> THEN 0 ELSE us[1].Cost + SumCost(Tail(us))

IsPrefix(a, b) == Len(a) <= Len(b) /\ SubSeq(b, 1, Len(a)) = a

\* Arrays still referenced by the ledger, a local or a returned slice.
RootsOf(su, l, r) ==
    ({su.arr} \cup {l[q].s.arr : q \in Tasks}
       \cup {r[q].s.arr : q \in {t \in Tasks : r[t].kind = "usages"}}) \ {0}

\* The garbage collector: unreferenced arrays disappear.
Live(h, roots) == [a \in (DOMAIN h) \cap roots |-> h[a]]

FreshArr(h) == CHOOSE a \in 1..(Cardinality(DOMAIN h) + 1) : a \notin DOMAIN h

\* The capacities append may give a new array that must hold n elements: the
\* language fixes only "sufficiently large".
NewCaps(n) == {n, n + 1}

\* ------------------------------------------------------------ sync.RWMutex
NoReaders == \A q \in Tasks : mu.r[q] = 0

\* Lock, first half: take the writers' mutex and announce (new readers now block).
LockAnnounce(p) == mu.w = "none" /\ mu' = [mu EXCEPT !.w = p]
\* Lock, second half: wait until the active readers have left.
LockEnter(p) == mu.w = p /\ NoReaders /\ UNCHANGED mu
Unlock(p) == mu' = [mu EXCEPT !.w = "none"]
RLock(p) == mu.w = "none" /\ mu' = [mu EXCEPT !.r[p] = @ + 1]
RUnlock(p) == mu' = [mu EXCEPT !.r[p] = @ - 1]

InAddUsage(p) ==
    pc[p] \in {"AddUsage_LockWait", "AddUsage_Usage",
               "AddUsage_ReadUsages", "AddUsage_Append", "AddUsage_ReadCost",
               "AddUsage_AddCost", "AddUsage_Unlock"}

InReset(p) ==
    pc[p] \in {"Reset_LockWait", "Reset_Cost", "Reset_Usages",
               "Reset_StartTime", "Reset_Unlock"}

\* The statements of AddUsage and Reset between Lock and Unlock.
InWrite(p) == (InAddUsage(p) \/ InReset(p)) /\ pc[p] \notin {"AddUsage_LockWait", "Reset_LockWait"}

Goto(p, l) == pc' = [pc EXCEPT ![p] = l]

\* ------------------------------------------------ registry and parsers
TierFullTracking == 1
TierDetectionOnly == 2

\* The tool names the program reports, in the order of Go's < on strings.
ToolOrder == <<"Aider", "Codex", "Copilot", "Crush", "OpenCode">>
ToolNames == {ToolOrder[i] : i \in 1..Len(ToolOrder)}

\* The watcher goroutines, named after the tool each reports; main is the
\* goroutine that runs the dashboard command and then the TUI.
Watchers == {"OpenCode", "Aider", "Codex", "Crush"}
Procs == {"main"} \cup Watchers

EmptyMap == [x \in {} |-> 0]
Put(m, k, v) == [x \in (DOMAIN m) \cup {k} |-> IF x = k THEN v ELSE m[x]]

\* A ToolStatus literal as the callers write it: EventCount and LastEventTime
\* are left at their zero values.
ToolStatus(name, tier, status, message, url) ==
    [Name |-> name, Tier |-> tier, Status |-> status, Message |-> message,
     DashboardURL |-> url, EventCount |-> 0, LastEventTime |-> 0]

\* Money in the parsers' inputs is counted in units of $0.05 per million.
UnitsPerDollar == 20000000
\* pricing.ModelPricing as the package declares it, two of its entries:
\* gpt-4o at $2.50 and $10.00 per million tokens, and gpt-4o-mini, the entry
\* CalculateCost falls back to, at $0.15 and $0.60.
ModelPricing ==
    [m \in {"gpt-4o", "gpt-4o-mini"} |->
        IF m = "gpt-4o" THEN [Input |-> 50, Output |-> 200]
                        ELSE [Input |-> 3, Output |-> 12]]

\* The model ids with the suffix ":free".
FreeModels == {"mock/gpt-new:free"}
\* Package pricing when UpdatePricing has returned without a fetch that
\* succeeded. upc is where the goroutine of UpdatePricing is, data the
\* entries of the response its loop has yet to take, writing the key its map
\* assignment is storing; resp, err and fatal are history: the response it
\* got, the error it returned, and whether the runtime has stopped the
\* process ("concurrent map read and map write").
NoPricing ==
    [table |-> ModelPricing, lastFetchTime |-> 0, fetchMutex |-> "", upc |-> "done",
     data |-> << >>, writing |-> "", resp |-> [kind |-> "", data |-> << >>],
     err |-> "", fatal |-> FALSE]

\* Lines of Aider's analytics log (message_send events): the one that may be
\* there when the dashboard starts, and those Aider may append. Json says
\* whether json.Unmarshal accepts the line.
AiderLine(time, n) ==
    [Json |-> TRUE, UserID |-> "u1", MainModel |-> "gpt-4o", Time |-> time,
     PromptTokens |-> n, CompletionTokens |-> 0, TotalTokens |-> n, Cost |-> n]
\* A line json.Unmarshal rejects: a message_send of tokens cut short.
MalformedAiderLine == [AiderLine(1, 1) EXCEPT !.Json = FALSE]
OldAiderLines == {AiderLine(0, 1)}
AiderLines == {AiderLine(1, 0), AiderLine(1, 1)}

\* OpenCode message files: one written before the reply has tokens, one after.
MsgIds == {"msg_1"}
MsgValues ==
    { [ModelID |-> "claude-sonnet-4", ProviderID |-> "anthropic", Input |-> n,
       Output |-> n, Reasoning |-> 0, CacheRead |-> 0, CacheWrite |-> 0, Cost |-> 0]
        : n \in {0, 1} }

\* Crush sessions, in the order of created_at.
CrushIds == <<"ses_1">>
CrushSession(tokens, updated) ==
    [PromptTokens |-> tokens, CompletionTokens |-> 0, Cost |-> tokens,
     UpdatedAt |-> updated]

NoLog == [exists |-> FALSE, lines |-> << >>]
NoCrushDB == [exists |-> FALSE, sessions |-> EmptyMap]
NoFiles == [aiderLog |-> NoLog, crushDB |-> NoCrushDB, messages |-> EmptyMap, rollout |-> << >>]

\* What may be on disk when the dashboard starts.
InitFiles ==
    { [aiderLog |-> a, crushDB |-> c, messages |-> EmptyMap, rollout |-> << >>] :
        a \in {NoLog} \cup {[exists |-> TRUE, lines |-> <<l>>] : l \in OldAiderLines},
        c \in {NoCrushDB,
               [exists |-> TRUE,
                sessions |-> [i \in {CrushIds[1]} |-> CrushSession(1, 0)]]} }

NoWLoc == [lines |-> << >>, exists |-> FALSE, then |-> ""]

NoSeen ==
    [events |-> 0,                          \* file changes and key presses so far
     pushed |-> [w \in Watchers |-> 0],     \* usage records each parser pushed
     missed |-> {},                         \* tools IncrementToolEvents did not find
     faults |-> 0,                          \* watchers that could not be started
     budget |-> MaxEvents]                  \* file changes and key presses to come at most

\* ------------------------------------------------------ the TUI and whatif
\* tui.InitialModel(), made at time t.
InitialModel(t) ==
    [activeView |-> "session", total |-> 0, burnRate |-> ZeroRate, rows |-> << >>,
     startTime |-> t]

\* No Update call in progress. total and usages are the locals of the call;
\* ticks counts the tick commands bubbletea has pending (Init returned
\* tickCmd()); err is the err of the last tick, and last and flip say which
\* message was handled last: history the properties refer to.
NoTui ==
    [pc |-> "idle", m |-> InitialModel(1), total |-> 0, usages |-> << >>,
     ticks |-> 1, err |-> FALSE, last |-> "", flip |-> FALSE]

\* whatif about to run; err is the err of its history query.
NoCli == [pc |-> "InitDB", DB |-> "nil", err |-> FALSE, out |-> [text |-> "", cost |-> 0]]

\* -------------------------------------------------------------------- Init
NoReport == [calls |-> 0, status |-> ToolStatus("", 0, "", "", "")]

NoObs ==
    [used |-> 0,             \* calls of AddUsage, AddUsageWithTool and Reset made so far
     epoch |-> 0,            \* Reset's clearing of the records, counted
     calls |-> 0,            \* AddUsage calls made before the first call of Reset
     sum |-> 0,              \* the sum of their cost arguments
     by |-> {},              \* the tasks that made them
     resetCalled |-> FALSE,
     accepted |-> << >>,     \* arguments of the AddUsage calls in the order they took
                             \* the write lock, since the records were last cleared
     quiet |-> FALSE,        \* a Reset has returned and no AddUsage was called since
     fresh |-> {},           \* readers whose call in progress began while quiet, with
                             \* no AddUsage called since
     resetFrom |-> [q \in Writers |-> 0],   \* when the Reset in progress was called
     lastFrom |-> 0,         \* when the last Reset that returned was called
     lastTo |-> 0,           \* and when it returned
     snapEpoch |-> [q \in Readers |-> 0]]   \* epoch at which a held snapshot was copied

\* The state after package initialisation: var Global = &Tracker{StartTime: time.Now(), ...}
\* and var DB *sql.DB.
InitTracker ==
    /\ now = 1
    /\ mu = [w |-> "none", r |-> [q \in Tasks |-> 0]]
    /\ SessionCost = 0
    /\ SessionUsages = NilSlice
    /\ StartTime = 1
    /\ heap = << >>
    /\ DB = "nil"
    /\ usage_events = << >>
    /\ pc = [q \in Tasks |-> "idle"]
    /\ arg = [q \in Tasks |-> NoArg]
    /\ loc = [q \in Tasks |-> NoLoc]
    /\ ret = [q \in Tasks |-> NoRet]
    /\ obs = NoObs
    /\ ToolStatuses = EmptyMap
    /\ toolHeap = << >>
    /\ reported = NoReport

\* The parsers' package variables, and main about to run the dashboard command
\* over the files f.
InitParsers(f) ==
    /\ fs = f
    /\ events = [w \in Watchers |-> << >>]
    /\ wpc = [q \in Procs |-> IF q = "main" THEN "StartOpenCodeWatcher" ELSE "none"]
    /\ wloc = [q \in Procs |-> NoWLoc]
    /\ processedMessageIDs = {}
    /\ processedAiderEvents = {}
    /\ processedCrushSessions = EmptyMap
    /\ held = << >>
    /\ seen = NoSeen
    /\ tui = NoTui
    /\ cli = NoCli
    /\ pricing = NoPricing

\* The tracker alone, under callers of its API.
Init == InitTracker /\ InitParsers(NoFiles)

\* The dashboard process.
InitTools == InitTracker /\ \E f \in InitFiles : InitParsers(f)

\* The clock advances.
Tick ==
    /\ now < MaxTime
    /\ now' = now + 1
    /\ UNCHANGED <<mu, ledger, store, pc, arg, loc, ret, obs, watch>>

\* ---------------------------------------------------------------- AddUsage
\* AddUsage without its lock.
AddUsage_NoLock(p) ==
    /\ UNCHANGED mu
    /\ Goto(p, "AddUsage_Usage")

\* AddUsage under a read lock, which does not keep a second AddUsage out.
AddUsage_RLock(p) ==
    /\ RLock(p)
    /\ Goto(p, "AddUsage_Usage")

\* t.mu.Lock(), first half. (A call that cannot yet take the writers' mutex
\* has done nothing another task can tell from a call not yet made, so the
\* call and this half are one step.)
AddUsage_Lock(p) ==
    /\ LockAnnounce(p)
    /\ Goto(p, "AddUsage_LockWait")

ObsAddCalled(p, a) ==
    obs' = [obs EXCEPT !.used = @ + 1,
                       !.calls = IF obs.resetCalled THEN @ ELSE @ + 1,
                       !.sum = IF obs.resetCalled THEN @ ELSE @ + a.cost,
                       !.by = IF obs.resetCalled THEN @ ELSE @ \cup {p},
                       !.quiet = FALSE,
                       !.fresh = {}]

\* A task calls AddUsage(model, prompt, completion, cost).
Call_AddUsage(p) ==
    /\ pc[p] = "idle"
    /\ obs.used < MaxCalls
    /\ \E a \in UsageArgs : arg' = [arg EXCEPT ![p] = a] /\ ObsAddCalled(p, a)
    /\ AddUsage_Lock(p)
    /\ UNCHANGED <<now, ledger, store, loc, ret, watch>>

\* A task calls AddUsageWithTool(tool, model, prompt, completion, cost),
\* which calls AddUsage first.
Call_AddUsageWithTool(p) ==
    /\ pc[p] = "idle"
    /\ obs.used < MaxCalls
    /\ \E a \in ToolArgs : arg' = [arg EXCEPT ![p] = a] /\ ObsAddCalled(p, a)
    /\ AddUsage_Lock(p)
    /\ UNCHANGED <<now, ledger, store, loc, ret, watch>>

\* t.mu.Lock(), second half.
AddUsage_LockWait(p) ==
    /\ pc[p] = "AddUsage_LockWait"
    /\ LockEnter(p)
    /\ Goto(p, "AddUsage_Usage")
    /\ obs' = [obs EXCEPT !.accepted = Append(@, arg[p])]
    /\ UNCHANGED <<now, ledger, store, arg, loc, ret, watch>>

\* The record built without its Timestamp.
AddUsage_UsageNoTimestamp(p) ==
    /\ pc[p] = "AddUsage_Usage"
    /\ loc' = [loc EXCEPT ![p].usage =
                 [Model |-> arg[p].model,
                  PromptTokens |-> arg[p].prompt,
                  CompletionTokens |-> arg[p].completion,
                  TotalTokens |-> arg[p].prompt + arg[p].completion,
                  Cost |-> arg[p].cost,
                  Timestamp |-> 0]]
    /\ Goto(p, "AddUsage_ReadUsages")
    /\ UNCHANGED <<now, mu, ledger, store, arg, ret, obs, watch>>

\* usage := Usage{..., Timestamp: time.Now()}
AddUsage_Usage(p) ==
    /\ pc[p] = "AddUsage_Usage"
    /\ loc' = [loc EXCEPT ![p].usage =
                 [Model |-> arg[p].model,
                  PromptTokens |-> arg[p].prompt,
                  CompletionTokens |-> arg[p].completion,
                  TotalTokens |-> arg[p].prompt + arg[p].completion,
                  Cost |-> arg[p].cost,
                  Timestamp |-> now]]
    /\ Goto(p, "AddUsage_ReadUsages")
    /\ UNCHANGED <<now, mu, ledger, store, arg, ret, obs, watch>>

\* append(t.SessionUsages, usage): the slice header is read ...
AddUsage_ReadUsages(p) ==
    /\ pc[p] = "AddUsage_ReadUsages"
    /\ loc' = [loc EXCEPT ![p].s = SessionUsages]
    /\ Goto(p, "AddUsage_Append")
    /\ UNCHANGED <<now, mu, ledger, store, arg, ret, obs, watch>>

\* The newest record put first: append([]Usage{usage}, t.SessionUsages...).
AddUsage_Prepend(p) ==
    /\ pc[p] = "AddUsage_Append"
    /\ LET s == loc[p].s
           a == FreshArr(heap)
           h == [x \in (DOMAIN heap) \cup {a} |->
                   IF x = a THEN <<loc[p].usage>> \o Elems(s) ELSE heap[x]]
       IN  /\ SessionUsages' = [arr |-> a, len |-> s.len + 1, cap |-> s.len + 1]
           /\ loc' = [loc EXCEPT ![p].s = NilSlice]
           /\ heap' = Live(h, RootsOf(SessionUsages', loc', ret))
    /\ Goto(p, "AddUsage_ReadCost")
    /\ UNCHANGED <<now, mu, SessionCost, StartTime, store, arg, ret, obs, watch>>

\* ... the element is stored, in place when the array has room and in a new,
\* larger array otherwise, and the new header is assigned to t.SessionUsages.
AddUsage_Append(p) ==
    /\ pc[p] = "AddUsage_Append"
    /\ LET s == loc[p].s
           u == loc[p].usage
       IN  IF s.len < s.cap
           THEN /\ SessionUsages' = [s EXCEPT !.len = s.len + 1]
                /\ loc' = [loc EXCEPT ![p].s = NilSlice]
                /\ heap' = Live([heap EXCEPT ![s.arr][s.len + 1] = u],
                                RootsOf(SessionUsages', loc', ret))
           ELSE \E c \in NewCaps(s.len + 1) :
                  LET a == FreshArr(heap)
                      h == [x \in (DOMAIN heap) \cup {a} |->
                              IF x = a
                              THEN Elems(s) \o <<u>> \o Zeros(c - s.len - 1)
                              ELSE heap[x]]
                  IN  /\ SessionUsages' = [arr |-> a, len |-> s.len + 1, cap |-> c]
                      /\ loc' = [loc EXCEPT ![p].s = NilSlice]
                      /\ heap' = Live(h, RootsOf(SessionUsages', loc', ret))
    /\ Goto(p, "AddUsage_ReadCost")
    /\ UNCHANGED <<now, mu, SessionCost, StartTime, store, arg, ret, obs, watch>>

\* t.SessionCost += cost: SessionCost is read ...
AddUsage_ReadCost(p) ==
    /\ pc[p] = "AddUsage_ReadCost"
    /\ loc' = [loc EXCEPT ![p].c = SessionCost]
    /\ Goto(p, "AddUsage_AddCost")
    /\ UNCHANGED <<now, mu, ledger, store, arg, ret, obs, watch>>

\* ... and the sum is written back.
AddUsage_AddCost(p) ==
    /\ pc[p] = "AddUsage_AddCost"
    /\ SessionCost' = loc[p].c + arg[p].cost
    /\ Goto(p, "AddUsage_Unlock")
    /\ UNCHANGED <<now, mu, SessionUsages, StartTime, heap, store, arg, loc, ret, obs, watch>>

\* AddUsage whose lock is still held when AddUsageWithTool calls the store.
AddUsage_Unlock_AfterStore(p) ==
    /\ pc[p] = "AddUsage_Unlock"
    /\ loc' = [loc EXCEPT ![p] = NoLoc]
    /\ IF arg[p].tool = ""
       THEN /\ Unlock(p)
            /\ Goto(p, "idle")
            /\ arg' = [arg EXCEPT ![p] = NoArg]
       ELSE /\ Goto(p, "AddUsageWithTool_RecordUsage")
            /\ UNCHANGED <<mu, arg>>
    /\ UNCHANGED <<now, ledger, store, ret, obs, watch>>

\* fmt.Printf of the acceptance line, then the deferred t.mu.Unlock(); the
\* call returns to its caller, which is AddUsageWithTool when a tool was given.
AddUsage_Unlock(p) ==
    /\ pc[p] = "AddUsage_Unlock"
    /\ Unlock(p)
    /\ loc' = [loc EXCEPT ![p] = NoLoc]
    /\ IF arg[p].tool = ""
       THEN /\ Goto(p, "idle")
            /\ arg' = [arg EXCEPT ![p] = NoArg]
       ELSE /\ Goto(p, "AddUsageWithTool_RecordUsage")
            /\ UNCHANGED arg
    /\ UNCHANGED <<now, ledger, store, ret, obs, watch>>

\* storage.RecordUsage: an error when the database was never initialised,
\* an INSERT otherwise.
RecordUsage(tool, model, prompt, completion, cost) ==
    IF DB = "nil"
    THEN UNCHANGED usage_events
    ELSE usage_events' = Append(usage_events,
             [timestamp |-> now, tool |-> tool, model |-> model,
              prompt_tokens |-> prompt, completion_tokens |-> completion,
              cost |-> cost])

\* _ = storage.RecordUsage(tool, model, prompt, completion, cost)
AddUsageWithTool_RecordUsage(p) ==
    /\ pc[p] = "AddUsageWithTool_RecordUsage"
    /\ RecordUsage(arg[p].tool, arg[p].model, arg[p].prompt, arg[p].completion,
                   arg[p].cost)
    /\ Goto(p, "idle")
    /\ arg' = [arg EXCEPT ![p] = NoArg]
    /\ UNCHANGED <<now, mu, ledger, DB, loc, ret, obs, watch>>

\* ------------------------------------------------------------------- Reset
\* A task calls Reset(): t.mu.Lock(), first half.
Call_Reset(p) ==
    /\ pc[p] = "idle"
    /\ obs.used < MaxCalls
    /\ LockAnnounce(p)
    /\ Goto(p, "Reset_LockWait")
    /\ obs' = [obs EXCEPT !.used = @ + 1,
                          !.resetCalled = TRUE,
                          !.resetFrom[p] = now]
    /\ UNCHANGED <<now, ledger, store, arg, loc, ret, watch>>

\* t.mu.Lock(), second half.
Reset_LockWait(p) ==
    /\ pc[p] = "Reset_LockWait"
    /\ LockEnter(p)
    /\ Goto(p, "Reset_Cost")
    /\ UNCHANGED <<now, ledger, store, arg, loc, ret, obs, watch>>

\* t.SessionCost = 0
Reset_Cost(p) ==
    /\ pc[p] = "Reset_Cost"
    /\ SessionCost' = 0
    /\ Goto(p, "Reset_Usages")
    /\ UNCHANGED <<now, mu, SessionUsages, StartTime, heap, store, arg, loc, ret, obs, watch>>

\* Reset that leaves the records in place.
Reset_UsagesKept(p) ==
    /\ pc[p] = "Reset_Usages"
    /\ Goto(p, "Reset_StartTime")
    /\ obs' = [obs EXCEPT !.epoch = @ + 1, !.accepted = << >>]
    /\ UNCHANGED <<now, mu, ledger, store, arg, loc, ret, watch>>

\* t.SessionUsages = nil
Reset_Usages(p) ==
    /\ pc[p] = "Reset_Usages"
    /\ SessionUsages' = NilSlice
    /\ heap' = Live(heap, RootsOf(SessionUsages', loc, ret))
    /\ Goto(p, "Reset_StartTime")
    /\ obs' = [obs EXCEPT !.epoch = @ + 1, !.accepted = << >>]
    /\ UNCHANGED <<now, mu, SessionCost, StartTime, store, arg, loc, ret, watch>>

\* t.StartTime = time.Now()
Reset_StartTime(p) ==
    /\ pc[p] = "Reset_StartTime"
    /\ StartTime' = now
    /\ Goto(p, "Reset_Unlock")
    /\ UNCHANGED <<now, mu, SessionCost, SessionUsages, heap, store, arg, loc, ret, obs, watch>>

\* the deferred t.mu.Unlock()
Reset_Unlock(p) ==
    /\ pc[p] = "Reset_Unlock"
    /\ Unlock(p)
    /\ Goto(p, "idle")
    /\ obs' = [obs EXCEPT !.quiet = TRUE, !.lastFrom = obs.resetFrom[p],
                          !.lastTo = now, !.resetFrom[p] = 0]
    /\ UNCHANGED <<now, ledger, store, arg, loc, ret, watch>>

\* ------------------------------------------------------------------- reads
ObsReadCalled(p) ==
    obs' = [obs EXCEPT !.fresh = IF obs.quiet THEN @ \cup {p} ELSE @ \ {p}]

\* A task calls GetSessionCost(): t.mu.RLock()
Call_GetSessionCost(p) ==
    /\ pc[p] = "idle"
    /\ RLock(p)
    /\ Goto(p, "GetSessionCost_Read")
    /\ ObsReadCalled(p)
    /\ UNCHANGED <<now, ledger, store, arg, loc, ret, watch>>

\* return t.SessionCost
GetSessionCost_Read(p) ==
    /\ pc[p] = "GetSessionCost_Read"
    /\ ret' = [ret EXCEPT ![p] = [kind |-> "cost", v |-> SessionCost]]
    /\ Goto(p, "GetSessionCost_RUnlock")
    /\ UNCHANGED <<now, mu, ledger, store, arg, loc, obs, watch>>

\* the deferred t.mu.RUnlock()
GetSessionCost_RUnlock(p) ==
    /\ pc[p] = "GetSessionCost_RUnlock"
    /\ RUnlock(p)
    /\ Goto(p, "GetSessionCost_done")
    /\ UNCHANGED <<now, ledger, store, arg, loc, ret, obs, watch>>

\* A task calls GetUsages(): t.mu.RLock()
Call_GetUsages(p) ==
    /\ pc[p] = "idle"
    /\ RLock(p)
    /\ Goto(p, "GetUsages_Make")
    /\ ObsReadCalled(p)
    /\ UNCHANGED <<now, ledger, store, arg, loc, ret, watch>>

\* copyUsages := make([]Usage, len(t.SessionUsages))
GetUsages_Make(p) ==
    /\ pc[p] = "GetUsages_Make"
    /\ LET n == SessionUsages.len
           a == FreshArr(heap)
       IN  IF n = 0
           THEN /\ loc' = [loc EXCEPT ![p].s = NilSlice]
                /\ UNCHANGED heap
           ELSE /\ loc' = [loc EXCEPT ![p].s = [arr |-> a, len |-> n, cap |-> n]]
                /\ heap' = [x \in (DOMAIN heap) \cup {a} |->
                              IF x = a THEN Zeros(n) ELSE heap[x]]
    /\ Goto(p, "GetUsages_Copy")
    /\ UNCHANGED <<now, mu, SessionCost, SessionUsages, StartTime, store, arg, ret, obs, watch>>

\* copy(copyUsages, t.SessionUsages): min(len(dst), len(src)) elements
GetUsages_Copy(p) ==
    /\ pc[p] = "GetUsages_Copy"
    /\ LET dst == loc[p].s
           src == Elems(SessionUsages)
           k == IF dst.len < Len(src) THEN dst.len ELSE Len(src)
       IN  IF k = 0
           THEN UNCHANGED heap
           ELSE heap' = [heap EXCEPT ![dst.arr] =
                           [i \in 1..dst.len |-> IF i <= k THEN src[i] ELSE @[i]]]
    /\ Goto(p, "GetUsages_RUnlock")
    /\ obs' = [obs EXCEPT !.snapEpoch[p] = obs.epoch]
    /\ UNCHANGED <<now, mu, SessionCost, SessionUsages, StartTime, store, arg, loc, ret, watch>>

\* return t.SessionUsages: the ledger's own slice handed out.
GetUsages_ReturnLedger(p) ==
    /\ pc[p] = "GetUsages_RUnlock"
    /\ RUnlock(p)
    /\ ret' = [ret EXCEPT ![p] = [kind |-> "usages", s |-> SessionUsages]]
    /\ loc' = [loc EXCEPT ![p] = NoLoc]
    /\ heap' = Live(heap, RootsOf(SessionUsages, loc', ret'))
    /\ Goto(p, "GetUsages_done")
    /\ UNCHANGED <<now, SessionCost, SessionUsages, StartTime, store, arg, obs, watch>>

\* return copyUsages, with the deferred t.mu.RUnlock()
GetUsages_RUnlock(p) ==
    /\ pc[p] = "GetUsages_RUnlock"
    /\ RUnlock(p)
    /\ ret' = [ret EXCEPT ![p] = [kind |-> "usages", s |-> loc[p].s]]
    /\ loc' = [loc EXCEPT ![p] = NoLoc]
    /\ Goto(p, "GetUsages_done")
    /\ UNCHANGED <<now, ledger, store, arg, obs, watch>>

\* time.Duration.Hours of d clock quanta, as a quotient.
Hours(d) == [num |-> d, den |-> QuantaPerHour]

\* A task calls GetBurnRatePerHour(): t.mu.RLock()
Call_GetBurnRatePerHour(p) ==
    /\ pc[p] = "idle"
    /\ RLock(p)
    /\ Goto(p, "GetBurnRatePerHour_Len")
    /\ ObsReadCalled(p)
    /\ UNCHANGED <<now, ledger, store, arg, loc, ret, watch>>

\* t.mu.RLock() of the call GetSummary makes while it holds a read lock
GetBurnRatePerHour_RLock(p) ==
    /\ pc[p] = "GetBurnRatePerHour_RLock"
    /\ RLock(p)
    /\ Goto(p, "GetBurnRatePerHour_Len")
    /\ UNCHANGED <<now, ledger, store, arg, loc, ret, obs, watch>>

\* if len(t.SessionUsages) == 0 { return 0 }
GetBurnRatePerHour_Len(p) ==
    /\ pc[p] = "GetBurnRatePerHour_Len"
    /\ IF SessionUsages.len = 0
       THEN /\ loc' = [loc EXCEPT ![p].rate = ZeroRate]
            /\ Goto(p, "GetBurnRatePerHour_RUnlock")
       ELSE /\ UNCHANGED loc
            /\ Goto(p, "GetBurnRatePerHour_Since")
    /\ UNCHANGED <<now, mu, ledger, store, arg, ret, obs, watch>>

\* The elapsed time taken without the test for duration <= 0.
GetBurnRatePerHour_SinceUnchecked(p) ==
    /\ pc[p] = "GetBurnRatePerHour_Since"
    /\ loc' = [loc EXCEPT ![p].d = now - StartTime]
    /\ Goto(p, "GetBurnRatePerHour_Div")
    /\ UNCHANGED <<now, mu, ledger, store, arg, ret, obs, watch>>

\* duration := time.Since(t.StartTime).Hours(); if duration <= 0 { return 0 }
GetBurnRatePerHour_Since(p) ==
    /\ pc[p] = "GetBurnRatePerHour_Since"
    /\ LET d == now - StartTime
       IN  IF Hours(d).num <= 0
           THEN /\ loc' = [loc EXCEPT ![p].d = d, ![p].rate = ZeroRate]
                /\ Goto(p, "GetBurnRatePerHour_RUnlock")
           ELSE /\ loc' = [loc EXCEPT ![p].d = d]
                /\ Goto(p, "GetBurnRatePerHour_Div")
    /\ UNCHANGED <<now, mu, ledger, store, arg, ret, obs, watch>>

\* return t.SessionCost / duration
GetBurnRatePerHour_Div(p) ==
    /\ pc[p] = "GetBurnRatePerHour_Div"
    /\ loc' = [loc EXCEPT ![p].rate =
                 [num |-> SessionCost * Hours(loc[p].d).den, den |-> Hours(loc[p].d).num]]
    /\ Goto(p, "GetBurnRatePerHour_RUnlock")
    /\ UNCHANGED <<now, mu, ledger, store, arg, ret, obs, watch>>

\* the deferred t.mu.RUnlock(); the value goes to the caller, which is
\* GetSummary when the call was made from there.
GetBurnRatePerHour_RUnlock(p) ==
    /\ pc[p] = "GetBurnRatePerHour_RUnlock"
    /\ RUnlock(p)
    /\ IF loc[p].nested
       THEN /\ Goto(p, "GetSummary_Sprintf")
            /\ UNCHANGED <<loc, ret>>
       ELSE /\ Goto(p, "GetBurnRatePerHour_done")
            /\ ret' = [ret EXCEPT ![p] =
                         [kind |-> "rate", rate |-> loc[p].rate, d |-> loc[p].d]]
            /\ loc' = [loc EXCEPT ![p] = NoLoc]
    /\ UNCHANGED <<now, ledger, store, arg, obs, watch>>

\* A task calls GetSummary(): t.mu.RLock(), then rate := t.GetBurnRatePerHour()
Call_GetSummary(p) ==
    /\ pc[p] = "idle"
    /\ RLock(p)
    /\ loc' = [loc EXCEPT ![p].nested = TRUE]
    /\ Goto(p, "GetBurnRatePerHour_RLock")
    /\ ObsReadCalled(p)
    /\ UNCHANGED <<now, ledger, store, arg, ret, watch>>

\* fmt.Sprintf(..., t.SessionCost, rate, len(t.SessionUsages))
GetSummary_Sprintf(p) ==
    /\ pc[p] = "GetSummary_Sprintf"
    /\ ret' = [ret EXCEPT ![p] =
                 [kind |-> "summary", cost |-> SessionCost, rate |-> loc[p].rate,
                  calls |-> SessionUsages.len]]
    /\ loc' = [loc EXCEPT ![p] = NoLoc]
    /\ Goto(p, "GetSummary_RUnlock")
    /\ UNCHANGED <<now, mu, ledger, store, arg, obs, watch>>

\* the deferred t.mu.RUnlock()
GetSummary_RUnlock(p) ==
    /\ pc[p] = "GetSummary_RUnlock"
    /\ RUnlock(p)
    /\ Goto(p, "GetSummary_done")
    /\ UNCHANGED <<now, ledger, store, arg, loc, ret, obs, watch>>

\* The caller drops the value a read returned.
Return(p) ==
    /\ pc[p] \in {"GetSessionCost_done", "GetUsages_done", "GetBurnRatePerHour_done",
                  "GetSummary_done", "GetHistoricalUsage_done"}
    /\ ret' = [ret EXCEPT ![p] = NoRet]
    /\ heap' = Live(heap, RootsOf(SessionUsages, loc, ret'))
    /\ Goto(p, "idle")
    /\ obs' = [obs EXCEPT !.fresh = @ \ {p}, !.snapEpoch[p] = 0]
    /\ UNCHANGED <<now, mu, SessionCost, SessionUsages, StartTime, store, arg, loc, watch>>

\* -------------------------------------------------------------------- Next
Next ==
    \/ Tick
    \/ \E p \in Writers :
         \/ Call_AddUsage(p)
         \/ Call_AddUsageWithTool(p)
         \/ AddUsage_LockWait(p)
         \/ AddUsage_Usage(p)
         \/ AddUsage_ReadUsages(p)
         \/ AddUsage_Append(p)
         \/ AddUsage_ReadCost(p)
         \/ AddUsage_AddCost(p)
         \/ AddUsage_Unlock(p)
         \/ AddUsageWithTool_RecordUsage(p)
         \/ Call_Reset(p)
         \/ Reset_LockWait(p)
         \/ Reset_Cost(p)
         \/ Reset_Usages(p)
         \/ Reset_StartTime(p)
         \/ Reset_Unlock(p)
    \/ \E p \in Readers :
         \/ Call_GetSessionCost(p)
         \/ GetSessionCost_Read(p)
         \/ GetSessionCost_RUnlock(p)
         \/ Call_GetUsages(p)
         \/ GetUsages_Make(p)
         \/ GetUsages_Copy(p)
         \/ GetUsages_RUnlock(p)
         \/ Call_GetBurnRatePerHour(p)
         \/ GetBurnRatePerHour_RLock(p)
         \/ GetBurnRatePerHour_Len(p)
         \/ GetBurnRatePerHour_Since(p)
         \/ GetBurnRatePerHour_Div(p)
         \/ GetBurnRatePerHour_RUnlock(p)
         \/ Call_GetSummary(p)
         \/ GetSummary_Sprintf(p)
         \/ GetSummary_RUnlock(p)
         \/ Return(p)

Spec == Init /\ [][Next]_vars

\* What the scheduler runs of a task once it is inside a call: every statement
\* after the call's first.
Proceed(p) ==
    \/ AddUsage_LockWait(p)
    \/ AddUsage_Usage(p)
    \/ AddUsage_ReadUsages(p)
    \/ AddUsage_Append(p)
    \/ AddUsage_ReadCost(p)
    \/ AddUsage_AddCost(p)
    \/ AddUsage_Unlock(p)
    \/ AddUsageWithTool_RecordUsage(p)
    \/ Reset_LockWait(p)
    \/ Reset_Cost(p)
    \/ Reset_Usages(p)
    \/ Reset_StartTime(p)
    \/ Reset_Unlock(p)
    \/ GetSessionCost_Read(p)
    \/ GetSessionCost_RUnlock(p)
    \/ GetUsages_Make(p)
    \/ GetUsages_Copy(p)
    \/ GetUsages_RUnlock(p)
    \/ GetBurnRatePerHour_RLock(p)
    \/ GetBurnRatePerHour_Len(p)
    \/ GetBurnRatePerHour_Since(p)
    \/ GetBurnRatePerHour_Div(p)
    \/ GetBurnRatePerHour_RUnlock(p)
    \/ GetSummary_Sprintf(p)
    \/ GetSummary_RUnlock(p)
    \/ Return(p)

\* The Go scheduler: a goroutine that can run is run in the end.
SpecFair == Spec /\ \A p \in Tasks : WF_vars(Proceed(p))

\* ------------------------------------------------------------ session ledger
Records == Elems(SessionUsages)

NoWriterInside == \A p \in Tasks : ~InWrite(p)

\* What AddUsage makes of its arguments, the Timestamp aside.
ArgsOf(u) == [model |-> u.Model, prompt |-> u.PromptTokens,
              completion |-> u.CompletionTokens, cost |-> u.Cost]
ArgsGiven(a) == [model |-> a.model, prompt |-> a.prompt,
                 completion |-> a.completion, cost |-> a.cost]

\* C1: whenever a task holds a read lock, and whenever no call is in progress
\* at all, SessionCost is the sum of Cost over the records in SessionUsages:
\* no reader sees a record without its cost or a cost without its record.
C1_CostIsSumOfRecords ==
    ((\E q \in Tasks : mu.r[q] > 0) \/ (\A q \in Tasks : pc[q] = "idle"))
        => SessionCost = SumCost(Records)

\* A reader holds the read lock over a ledger of two records, one of them
\* added through AddUsageWithTool.
C1_Witness ==
    /\ pc["ui"] = "GetSessionCost_Read"
    /\ mu.r["ui"] > 0
    /\ SessionUsages.len = 2
    /\ SessionCost = 3

\* C2: as long as Reset was never called, once no AddUsage call is in
\* progress SessionCost is the sum of the cost arguments of all the calls made
\* and SessionUsages holds exactly one record per call.
C2_NoLostUpdate ==
    (~obs.resetCalled /\ \A q \in Tasks : ~InAddUsage(q))
        => /\ SessionCost = obs.sum
           /\ SessionUsages.len = obs.calls
           /\ Len(Records) = obs.calls

\* Both writer tasks have called once, with different costs, and are done.
C2_Witness ==
    /\ ~obs.resetCalled
    /\ obs.by = Writers
    /\ obs.calls = 2
    /\ obs.sum = 3
    /\ \A q \in Tasks : ~InAddUsage(q)

\* C3: a GetSessionCost call made after a Reset returned, with no AddUsage
\* called in between, returns 0, a GetUsages call made then returns an empty
\* sequence, and while no further Reset is in progress StartTime is a clock
\* reading taken during that Reset.
C3_ResetThenRead ==
    /\ \A p \in obs.fresh :
         /\ pc[p] = "GetSessionCost_done" => ret[p].v = 0
         /\ pc[p] = "GetUsages_done" => Elems(ret[p].s) = << >>
    /\ (obs.quiet /\ \A p \in Tasks : ~InReset(p))
          => (obs.lastFrom <= StartTime /\ StartTime <= obs.lastTo)

\* A ledger that held a record was reset after the clock had advanced, and a
\* GetUsages call made after that has returned.
C3_Witness ==
    /\ "ui" \in obs.fresh
    /\ pc["ui"] = "GetUsages_done"
    /\ obs.calls = 1
    /\ obs.quiet
    /\ StartTime = 2

\* GetBurnRatePerHour as the specification states it, for n records, d quanta
\* elapsed and a total of cost.
BurnRateStated(n, d, cost) ==
    IF n = 0 \/ d <= 0 THEN ZeroRate ELSE [num |-> cost * QuantaPerHour, den |-> d]

\* C4: the value GetBurnRatePerHour is about to return is 0 when the ledger
\* holds no records or the elapsed time since StartTime is <= 0, and
\* SessionCost divided by the elapsed hours otherwise, the elapsed time being
\* one read from the clock during the call; a call made right after a Reset
\* returns 0; no returned value is a quotient by zero.
C4_BurnRate ==
    \A p \in Tasks :
      /\ pc[p] = "GetBurnRatePerHour_RUnlock" =>
           /\ loc[p].rate.den > 0
           /\ RateEq(loc[p].rate,
                     BurnRateStated(SessionUsages.len, loc[p].d, SessionCost))
           /\ SessionUsages.len > 0 => (0 <= loc[p].d /\ loc[p].d <= now - StartTime)
      /\ pc[p] = "GetBurnRatePerHour_done" =>
           /\ ret[p].rate.den > 0
           /\ ret[p].d <= 0 => ret[p].rate.num = 0
           /\ p \in obs.fresh => ret[p].rate.num = 0

\* A call that divided: one record of cost 1, one quantum elapsed.
C4_Witness ==
    /\ pc["ui"] = "GetBurnRatePerHour_done"
    /\ ret["ui"].d = 1
    /\ ret["ui"].rate = [num |-> QuantaPerHour, den |-> 1]

\* C5: the slice GetUsages returns shows the ledger's records as they are
\* while the call holds the read lock, shares its backing array with neither
\* the ledger nor a writer's local, and shows the same elements for as long
\* as the caller keeps it, whatever AddUsage and Reset do.
C5_CopyIsLedger ==
    \A p \in Tasks : pc[p] = "GetUsages_RUnlock" => Elems(loc[p].s) = Records
C5_NoSharing ==
    \A p \in Tasks :
      (pc[p] = "GetUsages_done" /\ ret[p].s.len > 0) =>
         /\ ret[p].s.arr # SessionUsages.arr
         /\ \A q \in Tasks \ {p} : loc[q].s.arr # ret[p].s.arr
C5_Kept ==
    \A p \in Tasks :
      (pc[p] = "GetUsages_done" /\ pc'[p] = "GetUsages_done") =>
         /\ ret'[p] = ret[p]
         /\ ElemsIn(heap', ret'[p].s) = ElemsIn(heap, ret[p].s)
C5_SnapshotIndependent ==
    /\ [] C5_CopyIsLedger
    /\ [] C5_NoSharing
    /\ [][C5_Kept]_vars

\* The caller holds a snapshot of one record and the ledger has grown since.
C5_Witness ==
    /\ pc["ui"] = "GetUsages_done"
    /\ ret["ui"].s.len = 1
    /\ SessionUsages.len = 2

\* C6: every step other than Reset's clearing of the records leaves the
\* records there were as a prefix of the records there are, and a snapshot
\* taken since the records were last cleared is a prefix of the ledger.
C6_StepAppends ==
    \/ \E p \in Tasks : pc[p] = "Reset_Usages" /\ pc'[p] # "Reset_Usages"
    \/ IsPrefix(Records, ElemsIn(heap', SessionUsages'))
C6_SnapshotIsPrefix ==
    \A p \in Readers :
      (pc[p] = "GetUsages_done" /\ obs.snapEpoch[p] = obs.epoch)
         => IsPrefix(Elems(ret[p].s), Records)
C6_AppendOnly ==
    /\ [][C6_StepAppends]_vars
    /\ [] C6_SnapshotIsPrefix

\* A snapshot of one record is held, no Reset has cleared the records since,
\* and the ledger holds a second record.
C6_Witness ==
    /\ pc["ui"] = "GetUsages_done"
    /\ obs.snapEpoch["ui"] = obs.epoch
    /\ ret["ui"].s.len = 1
    /\ SessionUsages.len = 2
    /\ obs.epoch = 0

\* C7: the records are in the order in which their AddUsage calls took the
\* write lock, their timestamps do not decrease with the index, and none is
\* earlier than StartTime.
C7_AcceptanceOrder ==
    /\ NoWriterInside =>
         /\ Len(Records) = Len(obs.accepted)
         /\ \A i \in 1..Len(Records) : ArgsOf(Records[i]) = ArgsGiven(obs.accepted[i])
    /\ \A i \in 1..Len(Records) : \A j \in i..Len(Records) :
         Records[i].Timestamp <= Records[j].Timestamp
    /\ \A i \in 1..Len(Records) : Records[i].Timestamp >= StartTime

\* Two records with different timestamps, accepted from different arguments.
C7_Witness ==
    /\ NoWriterInside
    /\ Len(Records) = 2
    /\ Records[1].Timestamp < Records[2].Timestamp
    /\ Records[1].Cost # Records[2].Cost

\* ================================================ the dashboard process
\* In this part a call of a tracker method is one step: the method's body
\* runs under t.mu from its first statement to its last.

WGoto(p, l) == wpc' = [wpc EXCEPT ![p] = l]

\* The address of a new ToolStatus for a name: one that nothing the TUI holds
\* has (the TUI holds at most one object per name).
FreshPtr(name) ==
    <<name, CHOOSE k \in 0..1 : \A i \in DOMAIN held : held[i] # <<name, k>>>>

\* The ToolStatus objects still referenced by the map or by the TUI.
LiveStatuses(h, ts, hd) ==
    [a \in (DOMAIN h) \cap ({ts[n] : n \in DOMAIN ts} \cup {hd[i] : i \in DOMAIN hd})
        |-> h[a]]

\* Tracker.AddUsage, Lock to Unlock.
AddUsage(model, prompt, completion, cost) ==
    LET usage == [Model |-> model, PromptTokens |-> prompt,
                  CompletionTokens |-> completion,
                  TotalTokens |-> prompt + completion,
                  Cost |-> cost, Timestamp |-> now]
        s == SessionUsages
    IN  /\ IF s.len < s.cap
           THEN /\ SessionUsages' = [s EXCEPT !.len = s.len + 1]
                /\ heap' = Live([heap EXCEPT ![s.arr][s.len + 1] = usage],
                                RootsOf(SessionUsages', loc, ret))
           ELSE \E c \in NewCaps(s.len + 1) :
                  LET a == FreshArr(heap)
                      h == [x \in (DOMAIN heap) \cup {a} |->
                              IF x = a
                              THEN Elems(s) \o <<usage>> \o Zeros(c - s.len - 1)
                              ELSE heap[x]]
                  IN  /\ SessionUsages' = [arr |-> a, len |-> s.len + 1, cap |-> c]
                      /\ heap' = Live(h, RootsOf(SessionUsages', loc, ret))
        /\ SessionCost' = SessionCost + cost
        /\ UNCHANGED StartTime

\* AddUsageWithTool that gives up when the store cannot be written.
AddUsageWithTool_StoreFirst(tool, model, prompt, completion, cost) ==
    IF DB = "nil"
    THEN UNCHANGED <<ledger, usage_events>>
    ELSE /\ AddUsage(model, prompt, completion, cost)
         /\ RecordUsage(tool, model, prompt, completion, cost)

\* Tracker.AddUsageWithTool
AddUsageWithTool(tool, model, prompt, completion, cost) ==
    /\ AddUsage(model, prompt, completion, cost)
    /\ RecordUsage(tool, model, prompt, completion, cost)

\* Tracker.Reset, Lock to Unlock.
Reset ==
    /\ SessionCost' = 0
    /\ SessionUsages' = NilSlice
    /\ StartTime' = now
    /\ heap' = Live(heap, RootsOf(SessionUsages', loc, ret))

\* SetToolStatus that updates the entry it finds in place, Status only.
SetToolStatus_InPlace(status) ==
    /\ reported' = [calls |-> reported.calls + 1, status |-> status]
    /\ IF status.Name \in DOMAIN ToolStatuses
       THEN /\ toolHeap' = [toolHeap EXCEPT ![ToolStatuses[status.Name]].Status =
                                status.Status]
            /\ UNCHANGED ToolStatuses
       ELSE LET a == FreshPtr(status.Name)
            IN  /\ ToolStatuses' = Put(ToolStatuses, status.Name, a)
                /\ toolHeap' = LiveStatuses(Put(toolHeap, a, status), ToolStatuses', held)

\* Tracker.SetToolStatus: t.ToolStatuses[status.Name] = &status, the address
\* of the parameter, a new object at every call.
SetToolStatus(status) ==
    LET a == FreshPtr(status.Name)
    IN  /\ ToolStatuses' = Put(ToolStatuses, status.Name, a)
        /\ toolHeap' = LiveStatuses(Put(toolHeap, a, status), ToolStatuses', held)
        /\ reported' = [calls |-> reported.calls + 1, status |-> status]

\* IncrementToolEvents that makes the entry it does not find.
IncrementToolEvents_Upsert(toolName) ==
    IF toolName \in DOMAIN ToolStatuses
    THEN /\ toolHeap' = [toolHeap EXCEPT ![ToolStatuses[toolName]] =
                           [@ EXCEPT !.EventCount = @ + 1, !.LastEventTime = now]]
         /\ UNCHANGED <<ToolStatuses, reported>>
    ELSE SetToolStatus([ToolStatus(toolName, TierFullTracking, "active", "", "")
                          EXCEPT !.EventCount = 1, !.LastEventTime = now])

\* IncrementToolEvents that takes an event as a sign of life.
IncrementToolEvents_Activate(toolName) ==
    /\ UNCHANGED <<ToolStatuses, reported>>
    /\ IF toolName \in DOMAIN ToolStatuses
       THEN toolHeap' = [toolHeap EXCEPT ![ToolStatuses[toolName]] =
                           [@ EXCEPT !.EventCount = @ + 1, !.LastEventTime = now,
                                     !.Status = "active"]]
       ELSE UNCHANGED toolHeap

\* Tracker.IncrementToolEvents. (t.ToolStatuses is never nil: Global is
\* built with make.)
IncrementToolEvents(toolName) ==
    /\ UNCHANGED <<ToolStatuses, reported>>
    /\ IF toolName \in DOMAIN ToolStatuses
       THEN toolHeap' = [toolHeap EXCEPT ![ToolStatuses[toolName]] =
                           [@ EXCEPT !.EventCount = @ + 1, !.LastEventTime = now]]
       ELSE UNCHANGED toolHeap

\* Tracker.GetToolStatus: the pointer in the map, nil when there is none.
Nil == <<"", 0>>
GetToolStatus(toolName) ==
    IF toolName \in DOMAIN ToolStatuses THEN ToolStatuses[toolName] ELSE Nil

\* Go's < on the tool names the program uses.
NameIndex == [n \in ToolNames |-> CHOOSE i \in 1..Len(ToolOrder) : ToolOrder[i] = n]
NameLess(a, b) == NameIndex[a] < NameIndex[b]

\* The orders in which a range over the map m may visit its keys. The language
\* leaves the order open; the runtime starts at a random place of a bucket and
\* goes round it. The orders taken are two rotations of one round, in which
\* the keys lie against their sorted order.
MapOrders(m) ==
    LET keys == SelectSeq(ToolOrder, LAMBDA n : n \in DOMAIN m)
        n == Len(keys)
        round == [i \in 1..n |-> keys[n + 1 - i]]
    IN  IF n = 0 THEN {<< >>}
        ELSE {[i \in 1..n |-> round[((i + r - 1) % n) + 1]] : r \in {0, n - 1}}

\* sort.Slice(statuses, func(i, j) { return statuses[i].Name < statuses[j].Name })
\* over the objects of h: each element is put before the first one that is
\* not less than it.
InsertByName(h, x, sorted) ==
    LET k == Cardinality({i \in 1..Len(sorted) : NameLess(h[sorted[i]].Name, h[x].Name)})
    IN  [i \in 1..(Len(sorted) + 1) |->
            IF i <= k THEN sorted[i] ELSE IF i = k + 1 THEN x ELSE sorted[i - 1]]

RECURSIVE SortByName(_, _)
SortByName(h, s) ==
    IF s = << >>
    THEN << >>
    ELSE CHOOSE r \in {InsertByName(h, Head(s), sorted) :
                          sorted \in {SortByName(h, Tail(s))}} : TRUE

\* GetToolStatuses that returns the pointers as the range met them.
GetToolStatuses_Unsorted(order) ==
    [i \in 1..Len(order) |-> ToolStatuses[order[i]]]

\* Tracker.GetToolStatuses: the pointers in the map, appended in the order
\* the range visits the keys, then sorted by Name.
GetToolStatuses(order) ==
    SortByName(toolHeap, [i \in 1..Len(order) |-> ToolStatuses[order[i]]])

\* pricing.CalculateCost over the table t.
CalculateCostIn(t, model, promptTokens, completionTokens) ==
    IF model \in FreeModels THEN 0
    ELSE LET p == IF model \in DOMAIN t THEN t[model] ELSE t["gpt-4o-mini"]
         IN  promptTokens * p.Input + completionTokens * p.Output

\* pricing.CalculateCost
CalculateCost(model, promptTokens, completionTokens) ==
    CalculateCostIn(pricing.table, model, promptTokens, completionTokens)

\* A watcher reports its status.
Report(name, status, message) ==
    SetToolStatus(ToolStatus(name, TierFullTracking, status, message, ""))

\* What a check made while starting a watcher may find: all is well, or, a
\* bounded number of times, it is not.
Found == IF seen.faults < MaxFaults THEN BOOLEAN ELSE {TRUE}
NoteFault(ok) == seen' = [seen EXCEPT !.faults = IF ok THEN @ ELSE @ + 1]

NoteMiss(toolName) ==
    seen' = [seen EXCEPT !.missed =
               IF toolName \in DOMAIN ToolStatuses THEN @ ELSE @ \cup {toolName}]
NotePush(w) == seen' = [seen EXCEPT !.pushed[w] = @ + 1]

\* ------------------------------------------------- cmd/dashboard.go: Run
\* parser.StartOpenCodeWatcher(): the storage directory may be missing and
\* fsnotify.NewWatcher may fail; otherwise the goroutine is started.
StartOpenCodeWatcher ==
    /\ wpc["main"] = "StartOpenCodeWatcher"
    /\ \E exists \in (IF fs.messages = EmptyMap THEN Found ELSE {TRUE}), ok \in Found :
         /\ IF ~exists
            THEN /\ Report("OpenCode", "not_found", "Storage directory not found")
                 /\ WGoto("main", "StartAiderWatcher")
            ELSE IF ~ok
            THEN /\ Report("OpenCode", "error", "Failed to create watcher")
                 /\ WGoto("main", "StartAiderWatcher")
            ELSE /\ Report("OpenCode", "active", "Watching storage")
                 /\ wpc' = [wpc EXCEPT !["main"] = "StartAiderWatcher",
                                       !["OpenCode"] = "select"]
         /\ NoteFault(exists /\ ok)
    /\ UNCHANGED <<now, tasks, ledger, store, fs, events, wloc, parsers, held, views>>

\* parser.StartAiderWatcher(aiderLogPath), up to the scan of the existing log.
StartAiderWatcher ==
    /\ wpc["main"] = "StartAiderWatcher"
    /\ \E ok \in Found :
         /\ IF ~ok
            THEN /\ Report("Aider", "error", "Failed to create watcher")
                 /\ WGoto("main", "StartCodexWatcher")
                 /\ UNCHANGED wloc
            ELSE /\ wloc' = [wloc EXCEPT !["main"] =
                               [lines |-> fs.aiderLog.lines,
                                exists |-> fs.aiderLog.exists,
                                then |-> "StartAiderWatcher_SetToolStatus"]]
                 /\ WGoto("main", "processAiderLogFile")
                 /\ UNCHANGED registry
         /\ NoteFault(ok)
    /\ UNCHANGED <<now, tasks, ledger, store, fs, events, parsers, held, views>>

\* ... the initial status, the goroutine, and the return.
StartAiderWatcher_SetToolStatus ==
    /\ wpc["main"] = "StartAiderWatcher_SetToolStatus"
    /\ IF wloc["main"].exists
       THEN Report("Aider", "active", "Watching analytics log")
       ELSE Report("Aider", "waiting", "Waiting for log file")
    /\ wpc' = [wpc EXCEPT !["main"] = "StartCodexWatcher", !["Aider"] = "select"]
    /\ wloc' = [wloc EXCEPT !["main"] = NoWLoc]
    /\ UNCHANGED <<now, tasks, ledger, store, fs, events, parsers, held, views, seen>>

\* What CheckCodexOTELEnabled says of config.toml.
OtelStatuses == {"enabled", "disabled (set [otel] exporter in config.toml)"}

\* parser.StartCodexWatcher(). (processExistingCodexSessions reads the
\* rollout files and calls nothing of the tracker.)
StartCodexWatcher ==
    /\ wpc["main"] = "StartCodexWatcher"
    /\ \E exists \in (IF fs.rollout = << >> THEN Found ELSE {TRUE}), ok \in Found,
          otelStatus \in OtelStatuses :
         /\ IF ~exists
            THEN /\ Report("Codex", "not_found", "~/.codex directory not found")
                 /\ WGoto("main", "StartCrushWatcher")
            ELSE IF ~ok
            THEN /\ Report("Codex", "error", "Failed to create watcher")
                 /\ WGoto("main", "StartCrushWatcher")
            ELSE /\ IF otelStatus = "enabled"
                    THEN Report("Codex", "active", "OTEL enabled")
                    ELSE Report("Codex", "partial", otelStatus)
                 /\ wpc' = [wpc EXCEPT !["main"] = "StartCrushWatcher",
                                       !["Codex"] = "select"]
         /\ NoteFault(exists /\ ok)
    /\ UNCHANGED <<now, tasks, ledger, store, fs, events, wloc, parsers, held, views>>

\* The rows processCrushDB's query returns: the sessions with tokens, oldest first.
CrushRows(db) ==
    LET ids == SelectSeq(CrushIds, LAMBDA i :
                   /\ i \in DOMAIN db.sessions
                   /\ (db.sessions[i].PromptTokens > 0 \/ db.sessions[i].CompletionTokens > 0))
    IN  [k \in 1..Len(ids) |->
            [ID |-> ids[k], PrimaryModel |-> "",
             PromptTokens |-> db.sessions[ids[k]].PromptTokens,
             CompletionTokens |-> db.sessions[ids[k]].CompletionTokens,
             Cost |-> db.sessions[ids[k]].Cost,
             UpdatedAt |-> db.sessions[ids[k]].UpdatedAt]]

\* parser.StartCrushWatcher(crushDBPath), up to the scan of the existing database.
StartCrushWatcher ==
    /\ wpc["main"] = "StartCrushWatcher"
    /\ \E ok \in Found :
         /\ IF ~ok
            THEN /\ Report("Crush", "error", "Failed to create watcher")
                 /\ WGoto("main", "Copilot")
                 /\ UNCHANGED wloc
            ELSE /\ wloc' = [wloc EXCEPT !["main"] =
                               [lines |-> CrushRows(fs.crushDB),
                                exists |-> fs.crushDB.exists,
                                then |-> "StartCrushWatcher_SetToolStatus"]]
                 /\ WGoto("main", "processCrushDB")
                 /\ UNCHANGED registry
         /\ NoteFault(ok)
    /\ UNCHANGED <<now, tasks, ledger, store, fs, events, parsers, held, views>>

\* ... the initial status, the goroutine, and the return.
StartCrushWatcher_SetToolStatus ==
    /\ wpc["main"] = "StartCrushWatcher_SetToolStatus"
    /\ IF wloc["main"].exists
       THEN Report("Crush", "active", "Watching database")
       ELSE Report("Crush", "not_found", ".crush/crush.db not found")
    /\ wpc' = [wpc EXCEPT !["main"] = "Copilot", !["Crush"] = "select"]
    /\ wloc' = [wloc EXCEPT !["main"] = NoWLoc]
    /\ UNCHANGED <<now, tasks, ledger, store, fs, events, parsers, held, views, seen>>

\* CopilotStatus.StatusCode and StatusMessage, by what CheckCopilotStatus found.
CopilotStatuses ==
    { [code |-> "configured", message |-> "View usage on GitHub"],
      [code |-> "installed", message |-> "CLI found but not configured"],
      [code |-> "not_found", message |-> "CLI not installed"] }

\* Copilot reported as a tool of the first tier.
Copilot_FullTracking ==
    /\ wpc["main"] = "Copilot"
    /\ \E c \in CopilotStatuses :
         SetToolStatus(ToolStatus("Copilot", TierFullTracking, c.code, c.message,
                                  "https://github.com/settings/copilot"))
    /\ WGoto("main", "tui")
    /\ UNCHANGED <<now, tasks, ledger, store, fs, events, wloc, parsers, held, views, seen>>

\* Copilot's detection counted as an event of the tool.
Copilot_Counted ==
    /\ wpc["main"] = "Copilot"
    /\ \E c \in CopilotStatuses :
         SetToolStatus([ToolStatus("Copilot", TierDetectionOnly, c.code, c.message,
                                   "https://github.com/settings/copilot")
                          EXCEPT !.EventCount = 1, !.LastEventTime = now])
    /\ WGoto("main", "tui")
    /\ UNCHANGED <<now, tasks, ledger, store, fs, events, wloc, parsers, held, views, seen>>

\* tracker.Global.SetToolStatus for Copilot, and then the TUI runs.
Copilot ==
    /\ wpc["main"] = "Copilot"
    /\ \E c \in CopilotStatuses :
         SetToolStatus(ToolStatus("Copilot", TierDetectionOnly, c.code, c.message,
                                  "https://github.com/settings/copilot"))
    /\ WGoto("main", "tui")
    /\ UNCHANGED <<now, tasks, ledger, store, fs, events, wloc, parsers, held, views, seen>>

\* --------------------------------------------------------------- aider.go
makeAiderEventKey(event) ==
    <<event.UserID, event.MainModel, event.Time, event.TotalTokens>>

\* processAiderLogFile that does not enter the key of the event it takes.
processAiderLogFile_Unmarked(p) ==
    /\ wpc[p] = "processAiderLogFile"
    /\ IF wloc[p].lines = << >>
       THEN /\ WGoto(p, wloc[p].then)
            /\ UNCHANGED <<wloc, processedAiderEvents, ledger, seen>>
       ELSE LET event == Head(wloc[p].lines)
                eventKey == makeAiderEventKey(event)
                model == IF event.MainModel = "" THEN "aider-unknown" ELSE event.MainModel
            IN  /\ wloc' = [wloc EXCEPT ![p].lines = Tail(@)]
                /\ IF ~event.Json \/ eventKey \in processedAiderEvents
                   THEN UNCHANGED <<wpc, processedAiderEvents, ledger, seen>>
                   ELSE /\ UNCHANGED processedAiderEvents
                        /\ IF event.TotalTokens = 0
                           THEN UNCHANGED <<wpc, ledger, seen>>
                           ELSE /\ AddUsage(model, event.PromptTokens,
                                            event.CompletionTokens, event.Cost)
                                /\ NotePush("Aider")
                                /\ WGoto(p, "processAiderLogFile_IncrementToolEvents")
    /\ UNCHANGED <<now, tasks, store, registry, fs, events, processedMessageIDs,
                   processedCrushSessions, held, views>>

\* processAiderLogFile, one turn of its loop over the lines it read: to the
\* end of the loop body, or to the call of IncrementToolEvents.
processAiderLogFile(p) ==
    /\ wpc[p] = "processAiderLogFile"
    /\ IF wloc[p].lines = << >>
       THEN /\ WGoto(p, wloc[p].then)
            /\ UNCHANGED <<wloc, processedAiderEvents, ledger, seen>>
       ELSE LET event == Head(wloc[p].lines)
                eventKey == makeAiderEventKey(event)
                model == IF event.MainModel = "" THEN "aider-unknown" ELSE event.MainModel
            IN  /\ wloc' = [wloc EXCEPT ![p].lines = Tail(@)]
                /\ IF ~event.Json \/ eventKey \in processedAiderEvents
                   THEN UNCHANGED <<wpc, processedAiderEvents, ledger, seen>>
                   ELSE /\ processedAiderEvents' = processedAiderEvents \cup {eventKey}
                        /\ IF event.TotalTokens = 0
                           THEN UNCHANGED <<wpc, ledger, seen>>
                           ELSE /\ AddUsage(model, event.PromptTokens,
                                            event.CompletionTokens, event.Cost)
                                /\ NotePush("Aider")
                                /\ WGoto(p, "processAiderLogFile_IncrementToolEvents")
    /\ UNCHANGED <<now, tasks, store, registry, fs, events, processedMessageIDs,
                   processedCrushSessions, held, views>>

\* tracker.Global.IncrementToolEvents("Aider")
processAiderLogFile_IncrementToolEvents(p) ==
    /\ wpc[p] = "processAiderLogFile_IncrementToolEvents"
    /\ IncrementToolEvents("Aider")
    /\ NoteMiss("Aider")
    /\ WGoto(p, "processAiderLogFile")
    /\ UNCHANGED <<now, tasks, ledger, store, fs, events, wloc, parsers, held, views>>

\* The goroutine of StartAiderWatcher takes an event: a Write starts a scan
\* of the log, a Create goes straight to the status.
AiderWatcher_Event ==
    /\ wpc["Aider"] = "select"
    /\ events["Aider"] # << >>
    /\ events' = [events EXCEPT !["Aider"] = Tail(@)]
    /\ IF Head(events["Aider"]).Op = "Write"
       THEN /\ wloc' = [wloc EXCEPT !["Aider"] =
                          [lines |-> fs.aiderLog.lines, exists |-> fs.aiderLog.exists,
                           then |-> "AiderWatcher_SetToolStatus"]]
            /\ WGoto("Aider", "processAiderLogFile")
       ELSE /\ WGoto("Aider", "AiderWatcher_SetToolStatus")
            /\ UNCHANGED wloc
    /\ UNCHANGED <<now, tasks, ledger, store, registry, fs, parsers, held, views, seen>>

\* ... and reports "active" after every Create or Write.
AiderWatcher_SetToolStatus ==
    /\ wpc["Aider"] = "AiderWatcher_SetToolStatus"
    /\ Report("Aider", "active", "Watching analytics log")
    /\ WGoto("Aider", "select")
    /\ wloc' = [wloc EXCEPT !["Aider"] = NoWLoc]
    /\ UNCHANGED <<now, tasks, ledger, store, fs, events, parsers, held, views, seen>>

\* --------------------------------------------------------------- crush.go
\* processCrushDB taking again a row whose updated_at is the one it stored.
processCrushDB_Again(p) ==
    /\ wpc[p] = "processCrushDB"
    /\ IF wloc[p].lines = << >>
       THEN /\ WGoto(p, wloc[p].then)
            /\ UNCHANGED <<wloc, processedCrushSessions, ledger, store, seen>>
       ELSE LET session == Head(wloc[p].lines)
                exists == session.ID \in DOMAIN processedCrushSessions
                model == IF session.PrimaryModel = "" THEN "crush-unknown"
                         ELSE session.PrimaryModel
                promptDelta == session.PromptTokens
                completionDelta == session.CompletionTokens
                costDelta == IF session.Cost <= 0 /\ (promptDelta > 0 \/ completionDelta > 0)
                             THEN CalculateCost(model, promptDelta, completionDelta)
                             ELSE session.Cost
            IN  IF exists /\ processedCrushSessions[session.ID] > session.UpdatedAt
                THEN /\ wloc' = [wloc EXCEPT ![p].lines = Tail(@)]
                     /\ UNCHANGED <<wpc, processedCrushSessions, ledger, store, seen>>
                ELSE IF promptDelta > 0 \/ completionDelta > 0
                THEN /\ AddUsageWithTool("Crush", model, promptDelta, completionDelta,
                                         costDelta)
                     /\ NotePush("Crush")
                     /\ WGoto(p, "processCrushDB_IncrementToolEvents")
                     /\ UNCHANGED <<wloc, processedCrushSessions, DB>>
                ELSE /\ processedCrushSessions' =
                            Put(processedCrushSessions, session.ID, session.UpdatedAt)
                     /\ wloc' = [wloc EXCEPT ![p].lines = Tail(@)]
                     /\ UNCHANGED <<wpc, ledger, store, seen>>
    /\ UNCHANGED <<now, tasks, registry, fs, events, processedMessageIDs,
                   processedAiderEvents, held, views>>

\* processCrushDB, one turn of its loop over the rows: to the end of the loop
\* body, or to the call of IncrementToolEvents.
processCrushDB(p) ==
    /\ wpc[p] = "processCrushDB"
    /\ IF wloc[p].lines = << >>
       THEN /\ WGoto(p, wloc[p].then)
            /\ UNCHANGED <<wloc, processedCrushSessions, ledger, store, seen>>
       ELSE LET session == Head(wloc[p].lines)
                exists == session.ID \in DOMAIN processedCrushSessions
                model == IF session.PrimaryModel = "" THEN "crush-unknown"
                         ELSE session.PrimaryModel
                promptDelta == session.PromptTokens
                completionDelta == session.CompletionTokens
                costDelta == IF session.Cost <= 0 /\ (promptDelta > 0 \/ completionDelta > 0)
                             THEN CalculateCost(model, promptDelta, completionDelta)
                             ELSE session.Cost
            IN  IF exists /\ processedCrushSessions[session.ID] >= session.UpdatedAt
                THEN /\ wloc' = [wloc EXCEPT ![p].lines = Tail(@)]
                     /\ UNCHANGED <<wpc, processedCrushSessions, ledger, store, seen>>
                ELSE IF promptDelta > 0 \/ completionDelta > 0
                THEN /\ AddUsageWithTool("Crush", model, promptDelta, completionDelta,
                                         costDelta)
                     /\ NotePush("Crush")
                     /\ WGoto(p, "processCrushDB_IncrementToolEvents")
                     /\ UNCHANGED <<wloc, processedCrushSessions, DB>>
                ELSE /\ processedCrushSessions' =
                            Put(processedCrushSessions, session.ID, session.UpdatedAt)
                     /\ wloc' = [wloc EXCEPT ![p].lines = Tail(@)]
                     /\ UNCHANGED <<wpc, ledger, store, seen>>
    /\ UNCHANGED <<now, tasks, registry, fs, events, processedMessageIDs,
                   processedAiderEvents, held, views>>

\* tracker.Global.IncrementToolEvents("Crush"), and the row is marked as processed.
processCrushDB_IncrementToolEvents(p) ==
    /\ wpc[p] = "processCrushDB_IncrementToolEvents"
    /\ IncrementToolEvents("Crush")
    /\ NoteMiss("Crush")
    /\ LET session == Head(wloc[p].lines)
       IN  processedCrushSessions' =
               Put(processedCrushSessions, session.ID, session.UpdatedAt)
    /\ wloc' = [wloc EXCEPT ![p].lines = Tail(@)]
    /\ WGoto(p, "processCrushDB")
    /\ UNCHANGED <<now, tasks, ledger, store, fs, events, processedMessageIDs,
                   processedAiderEvents, held, views>>

\* The goroutine of StartCrushWatcher takes an event: a Write starts a scan of
\* the database, a Create reports "active".
CrushWatcher_Event ==
    /\ wpc["Crush"] = "select"
    /\ events["Crush"] # << >>
    /\ events' = [events EXCEPT !["Crush"] = Tail(@)]
    /\ IF Head(events["Crush"]).Op = "Write"
       THEN /\ wloc' = [wloc EXCEPT !["Crush"] =
                          [lines |-> CrushRows(fs.crushDB), exists |-> fs.crushDB.exists,
                           then |-> "select"]]
            /\ WGoto("Crush", "processCrushDB")
            /\ UNCHANGED registry
       ELSE /\ Report("Crush", "active", "Watching database")
            /\ UNCHANGED <<wpc, wloc>>
    /\ UNCHANGED <<now, tasks, ledger, store, fs, parsers, held, views, seen>>

\* --------------------------------------------------------------- codex.go
\* The goroutine of StartCodexWatcher takes an event for a rollout file:
\* processCodexRolloutFile reads the file and calls nothing of the tracker.
CodexWatcher_Event ==
    /\ wpc["Codex"] = "select"
    /\ events["Codex"] # << >>
    /\ events' = [events EXCEPT !["Codex"] = Tail(@)]
    /\ wloc' = [wloc EXCEPT !["Codex"] = [lines |-> fs.rollout, exists |-> TRUE, then |-> ""]]
    /\ WGoto("Codex", "CodexWatcher_IncrementToolEvents")
    /\ UNCHANGED <<now, tasks, ledger, store, registry, fs, parsers, held, views, seen>>

\* tracker.Global.IncrementToolEvents("Codex")
CodexWatcher_IncrementToolEvents ==
    /\ wpc["Codex"] = "CodexWatcher_IncrementToolEvents"
    /\ IncrementToolEvents("Codex")
    /\ NoteMiss("Codex")
    /\ WGoto("Codex", "select")
    /\ wloc' = [wloc EXCEPT !["Codex"] = NoWLoc]
    /\ UNCHANGED <<now, tasks, ledger, store, fs, events, parsers, held, views>>

\* ------------------------------------------------------------ opencode.go
\* parseMessageFile without the check and the mark of processedMessageIDs.
OpenCodeWatcher_Event_NoMark ==
    /\ wpc["OpenCode"] = "select"
    /\ events["OpenCode"] # << >>
    /\ events' = [events EXCEPT !["OpenCode"] = Tail(@)]
    /\ LET filename == Head(events["OpenCode"]).Name
       IN  IF filename \notin DOMAIN fs.messages
           THEN UNCHANGED <<wpc, processedMessageIDs, ledger, seen>>
           ELSE LET msg == fs.messages[filename]
                    model == IF msg.ProviderID # ""
                             THEN msg.ModelID \o " (" \o msg.ProviderID \o ")"
                             ELSE msg.ModelID
                    input == msg.Tokens.Input + msg.Tokens.CacheRead
                    output == msg.Tokens.Output + msg.Tokens.Reasoning
                                + msg.Tokens.CacheWrite
                    cost == IF msg.Cost > 0 /\ msg.Cost < 100 * UnitsPerDollar
                            THEN msg.Cost
                            ELSE CalculateCost(msg.ModelID, input, output)
                IN  IF ~msg.Json \/ (msg.Tokens.Input = 0 /\ msg.Tokens.Output = 0)
                    THEN UNCHANGED <<wpc, processedMessageIDs, ledger, seen>>
                    ELSE /\ UNCHANGED processedMessageIDs
                         /\ AddUsage(model, input, output, cost)
                         /\ NotePush("OpenCode")
                         /\ WGoto("OpenCode", "parseMessageFile_IncrementToolEvents")
    /\ UNCHANGED <<now, tasks, store, registry, fs, wloc, processedAiderEvents,
                   processedCrushSessions, held, views>>

\* The goroutine of StartOpenCodeWatcher takes an event for a message file and
\* runs parseMessageFile, to its return or to the call of IncrementToolEvents.
OpenCodeWatcher_Event ==
    /\ wpc["OpenCode"] = "select"
    /\ events["OpenCode"] # << >>
    /\ events' = [events EXCEPT !["OpenCode"] = Tail(@)]
    /\ LET filename == Head(events["OpenCode"]).Name
       IN  IF filename \notin DOMAIN fs.messages
           THEN UNCHANGED <<wpc, processedMessageIDs, ledger, seen>>
           ELSE LET msg == fs.messages[filename]
                    model == IF msg.ProviderID # ""
                             THEN msg.ModelID \o " (" \o msg.ProviderID \o ")"
                             ELSE msg.ModelID
                    input == msg.Tokens.Input + msg.Tokens.CacheRead
                    output == msg.Tokens.Output + msg.Tokens.Reasoning
                                + msg.Tokens.CacheWrite
                    cost == IF msg.Cost > 0 /\ msg.Cost < 100 * UnitsPerDollar
                            THEN msg.Cost
                            ELSE CalculateCost(msg.ModelID, input, output)
                IN  IF ~msg.Json \/ (msg.Tokens.Input = 0 /\ msg.Tokens.Output = 0)
                    THEN UNCHANGED <<wpc, processedMessageIDs, ledger, seen>>
                    ELSE IF msg.ID \in processedMessageIDs
                    THEN UNCHANGED <<wpc, processedMessageIDs, ledger, seen>>
                    ELSE /\ processedMessageIDs' = processedMessageIDs \cup {msg.ID}
                         /\ AddUsage(model, input, output, cost)
                         /\ NotePush("OpenCode")
                         /\ WGoto("OpenCode", "parseMessageFile_IncrementToolEvents")
    /\ UNCHANGED <<now, tasks, store, registry, fs, wloc, processedAiderEvents,
                   processedCrushSessions, held, views>>

\* tracker.Global.IncrementToolEvents("OpenCode")
parseMessageFile_IncrementToolEvents ==
    /\ wpc["OpenCode"] = "parseMessageFile_IncrementToolEvents"
    /\ IncrementToolEvents("OpenCode")
    /\ NoteMiss("OpenCode")
    /\ WGoto("OpenCode", "select")
    /\ UNCHANGED <<now, tasks, ledger, store, fs, events, wloc, parsers, held, views>>

\* ------------------------------------------------------- the file system
\* fsnotify delivers an event to a watcher whose goroutine runs.
Notify(w, ev) ==
    events' = [events EXCEPT ![w] = IF wpc[w] = "none" THEN @ ELSE Append(@, ev)]

NoteEvent == seen' = [seen EXCEPT !.events = @ + 1]

\* OpenCode writes a message file.
Env_OpenCodeMessage ==
    /\ seen.events < seen.budget
    /\ \E id \in MsgIds, v \in MsgValues :
         /\ fs' = [fs EXCEPT !.messages = Put(@, id,
                      [Json |-> TRUE,
                       ID |-> id, ModelID |-> v.ModelID, ProviderID |-> v.ProviderID,
                       Cost |-> v.Cost,
                       Tokens |-> [Input |-> v.Input, Output |-> v.Output,
                                   Reasoning |-> v.Reasoning, CacheRead |-> v.CacheRead,
                                   CacheWrite |-> v.CacheWrite]])]
         /\ Notify("OpenCode",
                   [Op |-> IF id \in DOMAIN fs.messages THEN "Write" ELSE "Create",
                    Name |-> id])
    /\ NoteEvent
    /\ UNCHANGED <<now, tasks, ledger, store, registry, wpc, wloc, parsers, held, views>>

\* Aider appends a line to its analytics log, creating the log if need be.
Env_AiderAppend ==
    /\ seen.events < seen.budget
    /\ \E l \in AiderLines :
         fs' = [fs EXCEPT !.aiderLog = [exists |-> TRUE, lines |-> Append(@.lines, l)]]
    /\ Notify("Aider", [Op |-> IF fs.aiderLog.exists THEN "Write" ELSE "Create"])
    /\ NoteEvent
    /\ UNCHANGED <<now, tasks, ledger, store, registry, wpc, wloc, parsers, held, views>>

\* Codex writes to a rollout file.
Env_CodexRollout ==
    /\ seen.events < seen.budget
    /\ fs' = [fs EXCEPT !.rollout = Append(@, [Json |-> TRUE])]
    /\ Notify("Codex", [Op |-> "Write"])
    /\ NoteEvent
    /\ UNCHANGED <<now, tasks, ledger, store, registry, wpc, wloc, parsers, held, views>>

\* Crush updates a session: its totals grow and updated_at is the time of day.
Env_CrushUpdate ==
    /\ seen.events < seen.budget
    /\ \E i \in 1..Len(CrushIds) :
         LET id == CrushIds[i]
             tokens == IF id \in DOMAIN fs.crushDB.sessions
                       THEN fs.crushDB.sessions[id].PromptTokens + 1
                       ELSE 1
         IN  fs' = [fs EXCEPT !.crushDB =
                      [exists |-> TRUE,
                       sessions |-> Put(@.sessions, id, CrushSession(tokens, now))]]
    /\ Notify("Crush", [Op |-> IF fs.crushDB.exists THEN "Write" ELSE "Create"])
    /\ NoteEvent
    /\ UNCHANGED <<now, tasks, ledger, store, registry, wpc, wloc, parsers, held, views>>

\* ------------------------------------------------------------------- TUI
\* renderToolsPanel: statuses := tracker.Global.GetToolStatuses()
Tui_GetToolStatuses ==
    /\ wpc["main"] = "tui"
    /\ \E order \in MapOrders(ToolStatuses) : held' = GetToolStatuses(order)
    /\ toolHeap' = LiveStatuses(toolHeap, ToolStatuses, held')
    /\ UNCHANGED <<now, tasks, ledger, store, ToolStatuses, reported, fs, events,
                   wpc, wloc, parsers, seen, views>>

\* The "r" key with a Reset that makes a new registry as well.
Tui_Reset_Registry ==
    /\ wpc["main"] = "tui"
    /\ seen.events < seen.budget
    /\ Reset
    /\ ToolStatuses' = EmptyMap
    /\ toolHeap' = LiveStatuses(toolHeap, ToolStatuses', held)
    /\ NoteEvent
    /\ UNCHANGED <<now, tasks, store, reported, fs, events, wpc, wloc, parsers, held, views>>

\* The "r" key with a Reset that forgets what the parsers have taken as well.
Tui_Reset_Parsers ==
    /\ wpc["main"] = "tui"
    /\ seen.events < seen.budget
    /\ Reset
    /\ processedMessageIDs' = {}
    /\ processedAiderEvents' = {}
    /\ processedCrushSessions' = EmptyMap
    /\ NoteEvent
    /\ UNCHANGED <<now, tasks, store, registry, fs, events, wpc, wloc, held, views>>

\* The "r" key: tracker.Global.Reset()
Tui_Reset ==
    /\ wpc["main"] = "tui"
    /\ seen.events < seen.budget
    /\ Reset
    /\ NoteEvent
    /\ UNCHANGED <<now, tasks, store, registry, fs, events, wpc, wloc, parsers, held, views>>

NextTools ==
    \/ Tick
    \/ StartOpenCodeWatcher
    \/ StartAiderWatcher
    \/ StartAiderWatcher_SetToolStatus
    \/ StartCodexWatcher
    \/ StartCrushWatcher
    \/ StartCrushWatcher_SetToolStatus
    \/ Copilot
    \/ \E p \in {"main", "Aider"} :
         \/ processAiderLogFile(p)
         \/ processAiderLogFile_IncrementToolEvents(p)
    \/ \E p \in {"main", "Crush"} :
         \/ processCrushDB(p)
         \/ processCrushDB_IncrementToolEvents(p)
    \/ AiderWatcher_Event
    \/ AiderWatcher_SetToolStatus
    \/ CrushWatcher_Event
    \/ CodexWatcher_Event
    \/ CodexWatcher_IncrementToolEvents
    \/ OpenCodeWatcher_Event
    \/ parseMessageFile_IncrementToolEvents
    \/ Env_OpenCodeMessage
    \/ Env_AiderAppend
    \/ Env_CodexRollout
    \/ Env_CrushUpdate
    \/ Tui_GetToolStatuses
    \/ Tui_Reset

SpecTools == InitTools /\ [][NextTools]_vars

\* The statements of one goroutine of the dashboard: main, or a watcher.
Run(p) ==
    \/ /\ p = "main"
       /\ \/ StartOpenCodeWatcher
          \/ StartAiderWatcher
          \/ StartAiderWatcher_SetToolStatus
          \/ StartCodexWatcher
          \/ StartCrushWatcher
          \/ StartCrushWatcher_SetToolStatus
          \/ Copilot
          \/ processAiderLogFile("main")
          \/ processAiderLogFile_IncrementToolEvents("main")
          \/ processCrushDB("main")
          \/ processCrushDB_IncrementToolEvents("main")
    \/ /\ p = "OpenCode"
       /\ \/ OpenCodeWatcher_Event
          \/ parseMessageFile_IncrementToolEvents
    \/ /\ p = "Aider"
       /\ \/ AiderWatcher_Event
          \/ AiderWatcher_SetToolStatus
          \/ processAiderLogFile("Aider")
          \/ processAiderLogFile_IncrementToolEvents("Aider")
    \/ /\ p = "Codex"
       /\ \/ CodexWatcher_Event
          \/ CodexWatcher_IncrementToolEvents
    \/ /\ p = "Crush"
       /\ \/ CrushWatcher_Event
          \/ processCrushDB("Crush")
          \/ processCrushDB_IncrementToolEvents("Crush")

\* The Go scheduler: a goroutine that can run is run in the end.
SpecToolsFair == SpecTools /\ \A p \in Procs : WF_vars(Run(p))

\* ============================================================ the history
\* The store, the tracker's history query, and its two callers: the TUI's
\* Update and the whatif command. A call of a tracker method is one step.

QuantaPerDay == 24 * QuantaPerHour
Cent == UnitsPerDollar \div 100

\* The models of the records, in the order of Go's < on strings.
ModelOrder == <<"gpt-4o", "sonnet">>
ModelLess(a, b) ==
    \E i, j \in 1..Len(ModelOrder) : ModelOrder[i] = a /\ ModelOrder[j] = b /\ i < j

\* What the Crush parser passes to AddUsageWithTool.
HistoryArgs ==
    { [tool |-> "Crush", model |-> "sonnet", prompt |-> 1, completion |-> 1,
       cost |-> 2 * Cent] }

\* A row of usage_events as RecordUsage writes it.
Row(timestamp, model, cost) ==
    [timestamp |-> timestamp, tool |-> "Crush", model |-> model,
     prompt_tokens |-> 1, completion_tokens |-> 1, cost |-> cost]

\* What earlier runs may have left in history.db: nothing, or a row older
\* than a week, one of yesterday and one of today. Time 0 is a local midnight.
InitStores ==
    { << >>,
      <<Row(0 - 7 * QuantaPerDay, "sonnet", Cent), Row(0 - 1, "gpt-4o", Cent),
        Row(0, "gpt-4o", 2 * Cent)>> }

RECURSIVE SumOver(_, _)
SumOver(rows, f) == IF rows = << >> THEN 0 ELSE Head(rows)[f] + SumOver(Tail(rows), f)

\* storage.GetUsageSummary(since): the rows at or after since, grouped by
\* model, and the sum of their costs.
GetUsageSummary(since) ==
    LET rows == SelectSeq(usage_events, LAMBDA r : r.timestamp >= since)
        of(m) == SelectSeq(rows, LAMBDA r : r.model = m)
    IN  [summary |-> [m \in {rows[i].model : i \in 1..Len(rows)} |->
                        [PromptTokens |-> SumOver(of(m), "prompt_tokens"),
                         CompletionTokens |-> SumOver(of(m), "completion_tokens"),
                         Cost |-> SumOver(of(m), "cost")]],
         total |-> SumOver(rows, "cost")]

\* The cutoff with today taken as the last 24 hours.
Since_LastDay(window, t) ==
    IF window = "today" THEN t - QuantaPerDay ELSE t - 7 * QuantaPerDay

\* The cutoff of a window at time t: midnight of the day of t, or t less 7 days.
Since(window, t) ==
    IF window = "today" THEN t - (t % QuantaPerDay) ELSE t - 7 * QuantaPerDay

\* The slices GetHistoricalUsage may build from a summary: the range over the
\* map meets the models in any order and sort.Slice, which is not stable,
\* orders them by cost alone, the greater first.
HistoricalUsages(summary) ==
    LET ms == DOMAIN summary
        n == Cardinality(ms)
        usage(m) == [Model |-> m, PromptTokens |-> summary[m].PromptTokens,
                     CompletionTokens |-> summary[m].CompletionTokens,
                     TotalTokens |-> summary[m].PromptTokens + summary[m].CompletionTokens,
                     Cost |-> summary[m].Cost, Timestamp |-> 0]
    IN  { [i \in 1..n |-> usage(o[i])] :
            o \in { q \in [1..n -> ms] :
                      /\ \A i, j \in 1..n : i # j => q[i] # q[j]
                      /\ \A i, j \in 1..n :
                            i < j => ~(summary[q[j]].Cost > summary[q[i]].Cost) } }

\* Tracker.GetHistoricalUsage(window) in a process whose storage.DB is db:
\* the results it may return, the query succeeding (ok) or not.
GetHistoricalUsage(db, window, ok) ==
    IF window \notin {"today", "week"}
    THEN {[usages |-> << >>, total |-> 0, err |-> "invalid window"]}
    ELSE IF db = "nil" \/ ~ok
    THEN {[usages |-> << >>, total |-> 0, err |-> "read"]}
    ELSE UNION { {[usages |-> us, total |-> r.total, err |-> ""] :
                     us \in HistoricalUsages(r.summary)} :
                 r \in {GetUsageSummary(Since(window, now))} }

\* Tracker.GetBurnRatePerHour, RLock to RUnlock.
GetBurnRatePerHour ==
    IF SessionUsages.len = 0 \/ now - StartTime <= 0
    THEN ZeroRate
    ELSE [num |-> SessionCost * Hours(now - StartTime).den,
          den |-> Hours(now - StartTime).num]

\* num/den to the nearest whole number.
Round(num, den) == (2 * num + den) \div (2 * den)
\* fmt.Sprintf("$%.4f", x) and fmt.Sprintf("$%.2f/hr", r): the digits printed.
Dollars4(x) == Round(x, UnitsPerDollar \div 10000)
Dollars2(r) == Round(r.num, r.den * (UnitsPerDollar \div 100))

\* formatTokens
formatTokens(tokens) ==
    IF tokens >= 1000000 THEN <<Round(tokens * 10, 1000000), "M">>
    ELSE IF tokens >= 1000 THEN <<Round(tokens * 10, 1000), "K">>
    ELSE <<tokens, "">>

\* The table rows Update makes of the usages.
Rows(usages) ==
    [i \in 1..Len(usages) |->
        <<usages[i].Model, formatTokens(usages[i].PromptTokens),
          formatTokens(usages[i].CompletionTokens), Dollars4(usages[i].Cost)>>]

\* Update, case tickMsg, views today and week, for the result r of the query:
\* err is looked at and nothing is done about it.
Update_History(m, r) ==
    [m EXCEPT !.total = r.total, !.burnRate = ZeroRate, !.rows = Rows(r.usages)]

\* renderHistoryChart, over a store whose handle is db and whose rows are
\* rows: the daily spend of the last 7 days read as storage.GetDailyUsage
\* reads it, and no chart when that fails or is empty.
renderHistoryChart(db, rows, t) ==
    IF db = "nil" \/ \A i \in 1..Len(rows) : rows[i].timestamp < t - 7 * QuantaPerDay
    THEN "No history available"
    ELSE "History (Last 7 Days)"

\* model.View at time t: the tab, the total, the burn rate, the chart and
\* the table.
View(m, db, rows, t) ==
    [tab |-> m.activeView,
     total |-> Dollars4(m.total),
     burn |-> IF m.activeView = "session" THEN Dollars2(m.burnRate) ELSE 0,
     chart |-> IF m.activeView = "session" THEN "" ELSE renderHistoryChart(db, rows, t),
     table |-> m.rows]

Handled(msg) == [tui EXCEPT !.last = msg, !.flip = ~@]

\* The state after the dashboard command has started the watchers with none
\* of the tools' files on disk, and the TUI runs.
StartedStatuses ==
    [n \in ToolNames |->
        CASE n = "OpenCode" -> ToolStatus(n, TierFullTracking, "active", "Watching storage", "")
          [] n = "Aider" -> ToolStatus(n, TierFullTracking, "waiting", "Waiting for log file", "")
          [] n = "Codex" -> ToolStatus(n, TierFullTracking, "active", "OTEL enabled", "")
          [] n = "Crush" -> ToolStatus(n, TierFullTracking, "not_found",
                                       ".crush/crush.db not found", "")
          [] OTHER -> ToolStatus(n, TierDetectionOnly, "configured", "View usage on GitHub",
                                 "https://github.com/settings/copilot")]

Running ==
    /\ ToolStatuses = [n \in ToolNames |-> <<n, 0>>]
    /\ toolHeap = [a \in {<<n, 0>> : n \in ToolNames} |-> StartedStatuses[a[1]]]
    /\ reported = [calls |-> 5, status |-> StartedStatuses["Copilot"]]
    /\ events = [w \in Watchers |-> << >>]
    /\ wpc = [q \in Procs |-> IF q = "main" THEN "tui" ELSE "select"]
    /\ wloc = [q \in Procs |-> NoWLoc]
    /\ processedMessageIDs = {}
    /\ processedAiderEvents = {}
    /\ processedCrushSessions = EmptyMap
    /\ held = << >>
Started == Running /\ fs = NoFiles /\ seen = NoSeen

\* The dashboard with its TUI up, over the store earlier runs left. Whether
\* the dashboard's process has opened the store is decided before its
\* command runs.
InitHistory ==
    /\ now = 1
    /\ mu = [w |-> "none", r |-> [q \in Tasks |-> 0]]
    /\ SessionCost = 0
    /\ SessionUsages = NilSlice
    /\ StartTime = 1
    /\ heap = << >>
    /\ DB \in {"nil", "open"}
    /\ usage_events \in InitStores
    /\ pc = [q \in Tasks |-> "idle"]
    /\ arg = [q \in Tasks |-> NoArg]
    /\ loc = [q \in Tasks |-> NoLoc]
    /\ ret = [q \in Tasks |-> NoRet]
    /\ obs = NoObs
    /\ Started
    /\ tui = NoTui
    /\ cli = NoCli
    /\ pricing = NoPricing

\* processCrushDB pushes a record: tracker.Global.AddUsageWithTool
Producer_AddUsageWithTool ==
    /\ obs.used < MaxCalls
    /\ \E a \in HistoryArgs :
         AddUsageWithTool(a.tool, a.model, a.prompt, a.completion, a.cost)
    /\ obs' = [obs EXCEPT !.used = @ + 1]
    /\ UNCHANGED <<now, mu, pc, arg, loc, ret, DB, dash, views>>

\* The "r" key with a Reset that forgets the history as well.
Update_KeyMsg_ResetAll(k) ==
    /\ tui.pc = "idle"
    /\ k = "r"
    /\ Reset
    /\ usage_events' = << >>
    /\ tui' = [Handled(k) EXCEPT !.m.startTime = now]
    /\ UNCHANGED <<now, tasks, DB, dash, cli, pricing>>

\* Update, case tea.KeyMsg: "r" resets the session, "s", "t" and "w" choose
\* the view.
Update_KeyMsg(k) ==
    /\ tui.pc = "idle"
    /\ IF k = "r"
       THEN /\ Reset
            /\ tui' = [Handled(k) EXCEPT !.m.startTime = now]
       ELSE /\ tui' = [Handled(k) EXCEPT !.m.activeView =
                          CASE k = "s" -> "session" [] k = "t" -> "today" [] OTHER -> "week"]
            /\ UNCHANGED ledger
    /\ UNCHANGED <<now, tasks, store, dash, cli, pricing>>

\* Update whose tick is not scheduled again when the history query failed.
Update_tickMsg_Stops ==
    /\ tui.pc = "idle"
    /\ tui.ticks > 0
    /\ pricing.fetchMutex = ""
    /\ IF tui.m.activeView = "session"
       THEN tui' = [Handled("tick") EXCEPT !.pc = "GetUsages", !.total = SessionCost,
                                          !.ticks = @ - 1]
       ELSE \E ok \in BOOLEAN :
              \E r \in GetHistoricalUsage(DB, tui.m.activeView, ok) :
                  tui' = [Handled("history") EXCEPT !.m = Update_History(tui.m, r),
                                                   !.err = (r.err # ""),
                                                   !.ticks = IF r.err # "" THEN @ - 1
                                                                         ELSE (@ - 1) + 1]
    /\ UNCHANGED <<now, tasks, ledger, store, dash, cli, pricing>>

\* Update, case tickMsg: GetLastFetchTime takes fetchMutex and gives it back.
\* In the session view: m.total = GetSessionCost(), and
\* on to GetUsages. In the views today and week: GetHistoricalUsage, the
\* rows, and the return.
Update_tickMsg ==
    /\ tui.pc = "idle"
    /\ tui.ticks > 0
    /\ pricing.fetchMutex = ""
    /\ IF tui.m.activeView = "session"
       THEN tui' = [Handled("tick") EXCEPT !.pc = "GetUsages", !.total = SessionCost,
                                          !.ticks = @ - 1]
       ELSE \E ok \in BOOLEAN :
              \E r \in GetHistoricalUsage(DB, tui.m.activeView, ok) :
                  tui' = [Handled("history") EXCEPT !.m = Update_History(tui.m, r),
                                                   !.err = (r.err # ""),
                                                   !.ticks = (@ - 1) + 1]
    /\ UNCHANGED <<now, tasks, ledger, store, dash, cli, pricing>>

\* usages = tracker.Global.GetUsages()
Update_tickMsg_GetUsages ==
    /\ tui.pc = "GetUsages"
    /\ tui' = [tui EXCEPT !.pc = "GetBurnRatePerHour", !.usages = Elems(SessionUsages)]
    /\ UNCHANGED <<now, tasks, ledger, store, dash, cli, pricing>>

\* m.burnRate = tracker.Global.GetBurnRatePerHour(), the rows, and the return.
Update_tickMsg_GetBurnRatePerHour ==
    /\ tui.pc = "GetBurnRatePerHour"
    /\ tui' = [tui EXCEPT !.pc = "idle", !.total = 0, !.usages = << >>, !.err = FALSE,
                          !.ticks = @ + 1,
                          !.m = [@ EXCEPT !.total = tui.total,
                                          !.burnRate = GetBurnRatePerHour,
                                          !.rows = Rows(tui.usages)]]
    /\ UNCHANGED <<now, tasks, ledger, store, dash, cli, pricing>>

\* whatif: storage.InitDB() opens the store, or fails and whatif returns.
WhatIf_InitDB ==
    /\ cli.pc = "InitDB"
    /\ \E ok \in BOOLEAN :
         cli' = IF ok
                THEN [cli EXCEPT !.pc = "GetHistoricalUsage", !.DB = "open"]
                ELSE [cli EXCEPT !.pc = "done", !.out.text = "Error initializing DB"]
    /\ UNCHANGED <<now, tasks, ledger, store, dash, tui, pricing>>

\* What whatif prints for the result r of its query: the current cost, which
\* the table of models follows, or that there is no usage.
whatIfCmd(r) ==
    IF r.err # "" \/ Len(r.usages) = 0
    THEN [text |-> "No recent usage data available. Start some work first!", cost |-> 0]
    ELSE [text |-> "Current Session Cost", cost |-> Dollars4(SumCost(r.usages))]

\* whatif: tracker.Global.GetHistoricalUsage("today") and what is printed.
WhatIf_GetHistoricalUsage ==
    /\ cli.pc = "GetHistoricalUsage"
    /\ \E ok \in BOOLEAN :
         \E r \in GetHistoricalUsage(cli.DB, "today", ok) :
             cli' = [cli EXCEPT !.pc = "done", !.err = (r.err # ""), !.out = whatIfCmd(r)]
    /\ UNCHANGED <<now, tasks, ledger, store, dash, tui, pricing>>

\* whatif is run again.
WhatIf_Run ==
    /\ cli.pc = "done"
    /\ cli' = NoCli
    /\ UNCHANGED <<now, tasks, ledger, store, dash, tui, pricing>>

NextHistory ==
    \/ Tick
    \/ Producer_AddUsageWithTool
    \/ \E k \in {"r", "s", "t", "w"} : Update_KeyMsg(k)
    \/ Update_tickMsg
    \/ Update_tickMsg_GetUsages
    \/ Update_tickMsg_GetBurnRatePerHour
    \/ WhatIf_InitDB
    \/ WhatIf_GetHistoricalUsage
    \/ WhatIf_Run

SpecHistory == InitHistory /\ [][NextHistory]_vars

\* ============================================================ the sources
\* The four watchers at work while the dashboard runs: the tools write their
\* files, well-formed or not, fsnotify delivers the events, and the user may
\* reset the session.

\* The dashboard with its TUI up and none of the tools' files on disk yet.
InitSources ==
    /\ now = 1
    /\ mu = [w |-> "none", r |-> [q \in Tasks |-> 0]]
    /\ SessionCost = 0
    /\ SessionUsages = NilSlice
    /\ StartTime = 1
    /\ heap = << >>
    /\ DB \in {"nil", "open"}
    /\ usage_events = << >>
    /\ pc = [q \in Tasks |-> "idle"]
    /\ arg = [q \in Tasks |-> NoArg]
    /\ loc = [q \in Tasks |-> NoLoc]
    /\ ret = [q \in Tasks |-> NoRet]
    /\ obs = NoObs
    /\ Running
    /\ fs = NoFiles
    /\ seen = [NoSeen EXCEPT !.budget = MaxPolls]
    /\ tui = NoTui
    /\ cli = NoCli
    /\ pricing = NoPricing

\* OpenCode leaves a message file that is not JSON (a write cut short).
Env_OpenCodeMalformed ==
    /\ seen.events < seen.budget
    /\ \E id \in MsgIds :
         /\ fs' = [fs EXCEPT !.messages = Put(@, id,
                      [Json |-> FALSE, ID |-> "", ModelID |-> "", ProviderID |-> "",
                       Cost |-> 0,
                       Tokens |-> [Input |-> 0, Output |-> 0, Reasoning |-> 0,
                                   CacheRead |-> 0, CacheWrite |-> 0]])]
         /\ Notify("OpenCode",
                   [Op |-> IF id \in DOMAIN fs.messages THEN "Write" ELSE "Create",
                    Name |-> id])
    /\ NoteEvent
    /\ UNCHANGED <<now, tasks, ledger, store, registry, wpc, wloc, parsers, held, views>>

\* A line that is not JSON is appended to Aider's log.
Env_AiderMalformed ==
    /\ seen.events < seen.budget
    /\ fs' = [fs EXCEPT !.aiderLog =
                [exists |-> TRUE, lines |-> Append(@.lines, MalformedAiderLine)]]
    /\ Notify("Aider", [Op |-> IF fs.aiderLog.exists THEN "Write" ELSE "Create"])
    /\ NoteEvent
    /\ UNCHANGED <<now, tasks, ledger, store, registry, wpc, wloc, parsers, held, views>>

\* A line that is not JSON is written to a Codex rollout file.
Env_CodexMalformed ==
    /\ seen.events < seen.budget
    /\ wpc["Codex"] # "none"
    /\ fs' = [fs EXCEPT !.rollout = Append(@, [Json |-> FALSE])]
    /\ Notify("Codex", [Op |-> "Write"])
    /\ NoteEvent
    /\ UNCHANGED <<now, tasks, ledger, store, registry, wpc, wloc, parsers, held, views>>

\* crush.db is written and no session row changes.
Env_CrushTouch ==
    /\ seen.events < seen.budget
    /\ fs.crushDB.exists
    /\ Notify("Crush", [Op |-> "Write"])
    /\ NoteEvent
    /\ UNCHANGED <<now, tasks, ledger, store, registry, fs, wpc, wloc, parsers, held, views>>

NextSources ==
    \/ Tick
    \/ processAiderLogFile("Aider")
    \/ processAiderLogFile_IncrementToolEvents("Aider")
    \/ processCrushDB("Crush")
    \/ processCrushDB_IncrementToolEvents("Crush")
    \/ AiderWatcher_Event
    \/ AiderWatcher_SetToolStatus
    \/ CrushWatcher_Event
    \/ CodexWatcher_Event
    \/ CodexWatcher_IncrementToolEvents
    \/ OpenCodeWatcher_Event
    \/ parseMessageFile_IncrementToolEvents
    \/ Env_OpenCodeMessage
    \/ Env_OpenCodeMalformed
    \/ Env_AiderAppend
    \/ Env_AiderMalformed
    \/ Env_CodexRollout
    \/ Env_CodexMalformed
    \/ Env_CrushUpdate
    \/ Env_CrushTouch
    \/ Tui_Reset

SpecSources == InitSources /\ [][NextSources]_vars

\* The same dashboard with room for one more file change or key press: a
\* source is read, the session is reset, and the source is read again.
MaxResetPolls == 4

InitResets ==
    /\ now = 1
    /\ mu = [w |-> "none", r |-> [q \in Tasks |-> 0]]
    /\ SessionCost = 0
    /\ SessionUsages = NilSlice
    /\ StartTime = 1
    /\ heap = << >>
    /\ DB \in {"nil", "open"}
    /\ usage_events = << >>
    /\ pc = [q \in Tasks |-> "idle"]
    /\ arg = [q \in Tasks |-> NoArg]
    /\ loc = [q \in Tasks |-> NoLoc]
    /\ ret = [q \in Tasks |-> NoRet]
    /\ obs = NoObs
    /\ Running
    /\ fs = NoFiles
    /\ seen = [NoSeen EXCEPT !.budget = MaxResetPolls]
    /\ tui = NoTui
    /\ cli = NoCli
    /\ pricing = NoPricing

SpecResets == InitResets /\ [][NextSources]_vars

\* ================================================================ pricing
\* The dashboard while the goroutine it starts first runs UpdatePricing and
\* the OpenCode watcher prices the messages that come without a cost.

\* A price as the API gives it, a string: ok says whether strconv.ParseFloat
\* accepts it, nanos is its value in billionths of a dollar per token.
Price(nanos) == [ok |-> TRUE, nanos |-> nanos]
NoPrice == [ok |-> FALSE, nanos |-> 0]
PricingEntry(id, prompt, completion) == [ID |-> id, Prompt |-> prompt, Completion |-> completion]

\* inputPrice * 1_000_000, in the table's unit of $0.05 per million tokens.
NanosPerUnit == 50000000
PerMillion(nanos) == (nanos * 1000000) \div NanosPerUnit

\* What http.Get and the decoder may give: no connection, a status that is
\* not 200, a body that is not the JSON expected, or the list of models: a
\* new one at $0.000001 and $0.000002 per token; gpt-4o at a new price
\* followed by a model whose prompt price is not a number.
Responses ==
    { [kind |-> "failed to fetch pricing", data |-> << >>],
      [kind |-> "bad status", data |-> << >>],
      [kind |-> "failed to decode pricing data", data |-> << >>],
      [kind |-> "ok", data |-> <<PricingEntry("mock/gpt-new", Price(1000), Price(2000))>>],
      [kind |-> "ok", data |-> <<PricingEntry("gpt-4o", Price(100), Price(400)),
                                 PricingEntry("mock/unpriced", NoPrice, Price(100))>>] }

\* time.Since(lastFetchTime) < cacheDuration; the zero lastFetchTime lies
\* further back than any duration.
cacheDuration == QuantaPerHour
CacheIsFresh == pricing.lastFetchTime # 0 /\ now - pricing.lastFetchTime < cacheDuration

\* UpdatePricing: fetchMutex.Lock() and the check of the cache.
UpdatePricing_Lock ==
    /\ pricing.upc = "UpdatePricing"
    /\ pricing.fetchMutex = ""
    /\ pricing' = IF CacheIsFresh
                  THEN [pricing EXCEPT !.upc = "done", !.err = ""]
                  ELSE [pricing EXCEPT !.upc = "Get", !.fetchMutex = "UpdatePricing"]
    /\ UNCHANGED <<now, tasks, ledger, store, dash, tui, cli>>

\* http.Get, the status and the decoding: an error is returned, or the loop
\* over data.Data begins.
UpdatePricing_Get ==
    /\ pricing.upc = "Get"
    /\ \E resp \in Responses :
         pricing' = IF resp.kind # "ok"
                    THEN [pricing EXCEPT !.upc = "done", !.fetchMutex = "",
                                         !.resp = resp, !.err = resp.kind]
                    ELSE [pricing EXCEPT !.upc = "Range", !.resp = resp,
                                         !.data = resp.data]
    /\ UNCHANGED <<now, tasks, ledger, store, dash, tui, cli>>

\* One turn of the loop up to the assignment ModelPricing[model.ID] = ...,
\* which begins, or the end of the loop: lastFetchTime = time.Now() and the
\* return.
UpdatePricing_Range ==
    /\ pricing.upc = "Range"
    /\ pricing' =
         IF pricing.data = << >>
         THEN [pricing EXCEPT !.upc = "done", !.fetchMutex = "", !.lastFetchTime = now,
                              !.err = ""]
         ELSE LET model == Head(pricing.data)
              IN  IF ~model.Prompt.ok \/ ~model.Completion.ok
                  THEN [pricing EXCEPT !.data = Tail(@)]
                  ELSE [pricing EXCEPT !.upc = "Store", !.writing = model.ID]
    /\ UNCHANGED <<now, tasks, ledger, store, dash, tui, cli>>

\* UpdatePricing whose assignment replaces the table by the entry it stores.
UpdatePricing_Store_Only ==
    /\ pricing.upc = "Store"
    /\ LET model == Head(pricing.data)
       IN  pricing' = [pricing EXCEPT
                          !.table = Put(EmptyMap, model.ID,
                                        [Input |-> PerMillion(model.Prompt.nanos),
                                         Output |-> PerMillion(model.Completion.nanos)]),
                          !.writing = "", !.data = Tail(@), !.upc = "Range"]
    /\ UNCHANGED <<now, tasks, ledger, store, dash, tui, cli>>

\* The assignment ModelPricing[model.ID] = ... is done.
UpdatePricing_Store ==
    /\ pricing.upc = "Store"
    /\ LET model == Head(pricing.data)
       IN  pricing' = [pricing EXCEPT
                          !.table = Put(@, model.ID,
                                        [Input |-> PerMillion(model.Prompt.nanos),
                                         Output |-> PerMillion(model.Completion.nanos)]),
                          !.writing = "", !.data = Tail(@), !.upc = "Range"]
    /\ UNCHANGED <<now, tasks, ledger, store, dash, tui, cli>>

\* OpenCode messages that come without a cost: of a model of the table, of
\* one the API adds, of one no table has, and of a free one.
PricedModels == {"gpt-4o", "mock/gpt-new", "mystery-1", "mock/gpt-new:free"}
PricedMsgIds == {"msg_1", "msg_2"}
MaxPricedMessages == 2

Env_PricedMessage ==
    /\ seen.events < seen.budget
    /\ \E id \in PricedMsgIds, model \in PricedModels :
         /\ fs' = [fs EXCEPT !.messages = Put(@, id,
                      [Json |-> TRUE, ID |-> id, ModelID |-> model, ProviderID |-> "",
                       Cost |-> 0,
                       Tokens |-> [Input |-> 1, Output |-> 1, Reasoning |-> 0,
                                   CacheRead |-> 0, CacheWrite |-> 0]])]
         /\ Notify("OpenCode",
                   [Op |-> IF id \in DOMAIN fs.messages THEN "Write" ELSE "Create",
                    Name |-> id])
    /\ NoteEvent
    /\ UNCHANGED <<now, tasks, ledger, store, registry, wpc, wloc, parsers, held, views>>

\* The event the OpenCode watcher takes next is for a message that
\* parseMessageFile takes and for which it calls CalculateCost.
PricesMessage ==
    /\ wpc["OpenCode"] = "select"
    /\ events["OpenCode"] # << >>
    /\ Head(events["OpenCode"]).Name \in DOMAIN fs.messages
    /\ LET msg == fs.messages[Head(events["OpenCode"]).Name]
       IN  /\ msg.Json
           /\ ~(msg.Tokens.Input = 0 /\ msg.Tokens.Output = 0)
           /\ msg.ID \notin processedMessageIDs
           /\ ~(msg.Cost > 0 /\ msg.Cost < 100 * UnitsPerDollar)

\* parseMessageFile reads the table in CalculateCost while the assignment of
\* UpdatePricing is storing into it, and the runtime notices: the process
\* ends with "fatal error: concurrent map read and map write", every
\* goroutine with it, the message id entered and nothing pushed. (When the runtime does not notice, the
\* read sees the table before the assignment or after it: the step
\* OpenCodeWatcher_Event before UpdatePricing_Store or after it.)
parseMessageFile_Fatal ==
    /\ PricesMessage
    /\ pricing.writing # ""
    /\ ~(fs.messages[Head(events["OpenCode"]).Name].ModelID \in FreeModels)
    /\ events' = [events EXCEPT !["OpenCode"] = Tail(@)]
    /\ processedMessageIDs' =
           processedMessageIDs \cup {fs.messages[Head(events["OpenCode"]).Name].ID}
    /\ pricing' = [pricing EXCEPT !.fatal = TRUE, !.upc = "fatal"]
    /\ wpc' = [q \in Procs |-> "fatal"]
    /\ UNCHANGED <<now, tasks, ledger, store, registry, fs, wloc,
                   processedAiderEvents, processedCrushSessions, held, seen, tui, cli>>

\* The dashboard with its TUI up, the watchers running and the goroutine of
\* UpdatePricing about to run.
InitPricing ==
    /\ now = 1
    /\ mu = [w |-> "none", r |-> [q \in Tasks |-> 0]]
    /\ SessionCost = 0
    /\ SessionUsages = NilSlice
    /\ StartTime = 1
    /\ heap = << >>
    /\ DB \in {"nil", "open"}
    /\ usage_events = << >>
    /\ pc = [q \in Tasks |-> "idle"]
    /\ arg = [q \in Tasks |-> NoArg]
    /\ loc = [q \in Tasks |-> NoLoc]
    /\ ret = [q \in Tasks |-> NoRet]
    /\ obs = NoObs
    /\ Running
    /\ fs = NoFiles
    /\ seen = [NoSeen EXCEPT !.budget = MaxPricedMessages]
    /\ tui = NoTui
    /\ cli = NoCli
    /\ pricing = [NoPricing EXCEPT !.upc = "UpdatePricing"]

NextPricing ==
    \/ Tick
    \/ UpdatePricing_Lock
    \/ UpdatePricing_Get
    \/ UpdatePricing_Range
    \/ UpdatePricing_Store
    \/ Env_PricedMessage
    \/ OpenCodeWatcher_Event
    \/ parseMessageFile_IncrementToolEvents
    \/ parseMessageFile_Fatal

SpecPricing == InitPricing /\ [][NextPricing]_vars

\* ============================================================ store calls
\* The ledger under concurrent callers in a process whose store may be open:
\* the writers record what they add, the reader asks for the history.

InitStore ==
    /\ now = 1
    /\ mu = [w |-> "none", r |-> [q \in Tasks |-> 0]]
    /\ SessionCost = 0
    /\ SessionUsages = NilSlice
    /\ StartTime = 1
    /\ heap = << >>
    /\ DB \in {"nil", "open"}
    /\ usage_events = << >>
    /\ pc = [q \in Tasks |-> "idle"]
    /\ arg = [q \in Tasks |-> NoArg]
    /\ loc = [q \in Tasks |-> NoLoc]
    /\ ret = [q \in Tasks |-> NoRet]
    /\ obs = NoObs
    /\ ToolStatuses = EmptyMap
    /\ toolHeap = << >>
    /\ reported = NoReport
    /\ InitParsers(NoFiles)

\* The windows a caller may name: the two the tracker knows and one it does not.
WindowArgs == {"today", "week", "month"}

\* A task calls GetHistoricalUsage(window): now := time.Now() (kept in the
\* local d); no lock is taken.
Call_GetHistoricalUsage(p) ==
    /\ pc[p] = "idle"
    /\ \E window \in WindowArgs :
         loc' = [loc EXCEPT ![p].window = window, ![p].d = now]
    /\ Goto(p, "GetHistoricalUsage_Switch")
    /\ UNCHANGED <<now, mu, ledger, store, arg, ret, obs, watch>>

\* GetHistoricalUsage whose switch takes an unknown window for the week.
GetHistoricalUsage_Switch_Week(p) ==
    /\ pc[p] = "GetHistoricalUsage_Switch"
    /\ loc' = [loc EXCEPT ![p].d = Since("week", loc[p].d)]
    /\ Goto(p, "GetHistoricalUsage_GetUsageSummary")
    /\ UNCHANGED <<now, mu, ledger, store, arg, ret, obs, watch>>

\* switch window: since for today and week (kept in d), the error for any
\* other window.
GetHistoricalUsage_Switch(p) ==
    /\ pc[p] = "GetHistoricalUsage_Switch"
    /\ IF loc[p].window \in {"today", "week"}
       THEN /\ loc' = [loc EXCEPT ![p].d = Since(loc[p].window, loc[p].d)]
            /\ Goto(p, "GetHistoricalUsage_GetUsageSummary")
            /\ UNCHANGED ret
       ELSE /\ \E r \in GetHistoricalUsage(DB, loc[p].window, TRUE) :
                 ret' = [ret EXCEPT ![p] =
                           [kind |-> "history", usages |-> r.usages, total |-> r.total,
                            err |-> r.err]]
            /\ loc' = [loc EXCEPT ![p] = NoLoc]
            /\ Goto(p, "GetHistoricalUsage_done")
    /\ UNCHANGED <<now, mu, ledger, store, arg, obs, watch>>

\* summary, total, err := storage.GetUsageSummary(since), and the slice made
\* of the summary.
GetHistoricalUsage_GetUsageSummary(p) ==
    /\ pc[p] = "GetHistoricalUsage_GetUsageSummary"
    /\ \E ok \in BOOLEAN :
         IF DB = "nil" \/ ~ok
         THEN ret' = [ret EXCEPT ![p] =
                        [kind |-> "history", usages |-> << >>, total |-> 0,
                         err |-> "read"]]
         ELSE \E r \in {GetUsageSummary(loc[p].d)} :
                \E us \in HistoricalUsages(r.summary) :
                   ret' = [ret EXCEPT ![p] =
                             [kind |-> "history", usages |-> us, total |-> r.total,
                              err |-> ""]]
    /\ loc' = [loc EXCEPT ![p] = NoLoc]
    /\ Goto(p, "GetHistoricalUsage_done")
    /\ UNCHANGED <<now, mu, ledger, store, arg, obs, watch>>

NextStore ==
    \/ Next
    \/ \E p \in Readers :
         \/ Call_GetHistoricalUsage(p)
         \/ GetHistoricalUsage_Switch(p)
         \/ GetHistoricalUsage_GetUsageSummary(p)

SpecStore == InitStore /\ [][NextStore]_vars

\* ------------------------------------------------------------ tool registry
\* The EventCount a caller of GetToolStatus(n) or GetToolStatuses() reads for
\* the name n in the registry (ts, h).
EventCountIn(ts, h, n) == h[ts[n]].EventCount
EventCount(n) == EventCountIn(ToolStatuses, toolHeap, n)

\* C8: the EventCount that GetToolStatus and GetToolStatuses show for a name
\* never decreases, whatever step is taken: SetToolStatus, IncrementToolEvents,
\* Reset, a read, or a SetToolStatus for a name that already has events.
C8_Step ==
    \A n \in DOMAIN ToolStatuses :
        n \in DOMAIN ToolStatuses' /\
        EventCountIn(ToolStatuses', toolHeap', n) >= EventCount(n)
C8_EventCountNeverDecreases == [][C8_Step]_vars

\* C9: whenever the normalizer of a FullTracking source is between two of its
\* steps, the EventCount of its entry is the number of usage records it has
\* pushed, the records of its first scan included.
C9_EventCountIsRecordsPushed ==
    \A w \in Watchers :
        (wpc[w] = "select" /\ w \in DOMAIN ToolStatuses)
            => EventCount(w) = seen.pushed[w]

\* The statements that call IncrementToolEvents, and the name each passes.
IncrementCalls ==
    [l \in {"processAiderLogFile_IncrementToolEvents",
            "processCrushDB_IncrementToolEvents",
            "CodexWatcher_IncrementToolEvents",
            "parseMessageFile_IncrementToolEvents"} |->
        CASE l = "processAiderLogFile_IncrementToolEvents" -> "Aider"
          [] l = "processCrushDB_IncrementToolEvents" -> "Crush"
          [] l = "CodexWatcher_IncrementToolEvents" -> "Codex"
          [] OTHER -> "OpenCode"]

IncrementStep(p) ==
    \/ processAiderLogFile_IncrementToolEvents(p)
    \/ processCrushDB_IncrementToolEvents(p)
    \/ (p = "Codex" /\ CodexWatcher_IncrementToolEvents)
    \/ (p = "OpenCode" /\ parseMessageFile_IncrementToolEvents)

\* C10: a call of IncrementToolEvents(name) can always be completed; for a
\* name the registry does not hold it leaves the registry and the ledger as
\* they are and makes no entry; for a name it holds it adds exactly 1 to that
\* entry's EventCount, sets its LastEventTime to the time of the call, and
\* changes nothing else of the registry or the ledger.
C10_Returns ==
    \A p \in Procs : wpc[p] \in DOMAIN IncrementCalls => ENABLED IncrementStep(p)
C10_Step ==
    \A p \in Procs :
      (wpc[p] \in DOMAIN IncrementCalls /\ wpc'[p] # wpc[p]) =>
        LET name == IncrementCalls[wpc[p]]
        IN  /\ UNCHANGED <<ledger, ToolStatuses>>
            /\ IF name \notin DOMAIN ToolStatuses
               THEN UNCHANGED toolHeap
               ELSE LET a == ToolStatuses[name]
                    IN  toolHeap' = [toolHeap EXCEPT ![a] =
                            [toolHeap[a] EXCEPT
                               !.EventCount = toolHeap[a].EventCount + 1,
                               !.LastEventTime = now]]
C10_IncrementToolEvents ==
    /\ [] C10_Returns
    /\ [][C10_Step]_vars

\* Both cases have happened: Aider's first scan called IncrementToolEvents
\* before "Aider" was in the registry, which still shows no event for it, and
\* Codex's entry was found and counts one event, at the time of the call.
C10_Witness ==
    /\ "Aider" \in seen.missed
    /\ "Aider" \in DOMAIN ToolStatuses
    /\ EventCount("Aider") = 0
    /\ "Codex" \in DOMAIN ToolStatuses
    /\ EventCount("Codex") = 1
    /\ toolHeap[ToolStatuses["Codex"]].LastEventTime = 2

\* The names of the entries a list of pointers leads to, in the list's order.
NamesOf(h, r) == [i \in 1..Len(r) |-> h[r[i]].Name]
Ascending(names) ==
    \A i, j \in 1..Len(names) : i < j => NameLess(names[i], names[j])

\* C11: GetToolStatuses() returns exactly one entry per registered name, the
\* names in strictly ascending order, whatever the order in which the map is
\* visited and in which the statuses were reported; the list the TUI got from
\* its last call is in that order too.
C11_SortedByName ==
    /\ \A order \in MapOrders(ToolStatuses) :
          \A r \in {GetToolStatuses(order)} :
              /\ Len(r) = Cardinality(DOMAIN ToolStatuses)
              /\ {r[i] : i \in 1..Len(r)} = {ToolStatuses[n] : n \in DOMAIN ToolStatuses}
              /\ {NamesOf(toolHeap, r)[i] : i \in 1..Len(r)} = DOMAIN ToolStatuses
              /\ Ascending(NamesOf(toolHeap, r))
    /\ Ascending(NamesOf(toolHeap, held))

\* The five tools were reported, OpenCode first and Copilot last, Aider once
\* more by its goroutine, and the TUI has the five entries in name order.
C11_Witness ==
    /\ NamesOf(toolHeap, held) = ToolOrder
    /\ wpc["Aider"] = "select"
    /\ seen.events = 1
    /\ events["Aider"] = << >>
    /\ fs.aiderLog.lines # << >>
    /\ held = GetToolStatuses(ToolOrder)

\* The entry a reader finds for the name n in the registry (ts, h).
EntryIn(ts, h, n) == h[ts[n]]
Entry(n) == EntryIn(ToolStatuses, toolHeap, n)

\* C12: SetToolStatus(s) is a last-writer-wins upsert: after the call the
\* entry for s.Name carries exactly the Name, Tier, Status, Message and
\* DashboardURL of s, whatever the entry before held, the registry has the
\* names it had and s.Name, and the entries of the other names are the same
\* objects with the same contents.
C12_Step ==
    reported'.calls # reported.calls =>
        LET s == reported'.status
        IN  /\ DOMAIN ToolStatuses' = (DOMAIN ToolStatuses) \cup {s.Name}
            /\ LET e == EntryIn(ToolStatuses', toolHeap', s.Name)
               IN  /\ e.Name = s.Name
                   /\ e.Tier = s.Tier
                   /\ e.Status = s.Status
                   /\ e.Message = s.Message
                   /\ e.DashboardURL = s.DashboardURL
            /\ \A n \in (DOMAIN ToolStatuses) \ {s.Name} :
                  /\ ToolStatuses'[n] = ToolStatuses[n]
                  /\ EntryIn(ToolStatuses', toolHeap', n) = Entry(n)
C12_SetToolStatusIsUpsert == [][C12_Step]_vars

\* Aider's log was not there when the dashboard started, so that Aider was
\* reported as waiting; the log was then created and the goroutine's report
\* replaced the entry, status and message, the other four tools being there.
C12_Witness ==
    /\ reported.calls = 6
    /\ reported.status.Name = "Aider"
    /\ Len(fs.aiderLog.lines) = 1
    /\ fs.aiderLog.lines[1] \in AiderLines
    /\ Entry("Aider").Status = "active"
    /\ Entry("Aider").Message = "Watching analytics log"
    /\ DOMAIN ToolStatuses = ToolNames

\* C13: the names in the registry only grow: a name that was reported is in
\* the registry, and in what GetToolStatuses() returns, after every later step
\* of the dashboard: a report, IncrementToolEvents, Reset, AddUsage, a read,
\* the passage of time. (GetHistoricalUsage leaves ToolStatuses alone: C20.)
C13_Step ==
    /\ DOMAIN ToolStatuses \subseteq DOMAIN ToolStatuses'
    /\ \A order \in MapOrders(ToolStatuses') :
          \A r \in {SortByName(toolHeap',
                               [k \in 1..Len(order) |-> ToolStatuses'[order[k]]])} :
              DOMAIN ToolStatuses \subseteq {toolHeap'[r[i]].Name : i \in 1..Len(r)}
C13_NamesOnlyGrow == [][C13_Step]_vars

\* The five tools were reported, Aider's first scan pushed a record, and the
\* session was then reset at time 2: the five names are still there.
C13_Witness ==
    /\ DOMAIN ToolStatuses = ToolNames
    /\ seen.pushed["Aider"] = 1
    /\ StartTime = 2
    /\ SessionUsages = NilSlice
    /\ SessionCost = 0
    /\ seen.events = 1

\* The six states the registry's contract names.
Statuses == {"not_found", "waiting", "active", "partial", "configured", "error"}

\* C14: in every reachable state of the registry the Status of every entry is
\* one of not_found, waiting, active, partial, configured, error.
C14_SixStatuses ==
    \A n \in DOMAIN ToolStatuses : Entry(n).Status \in Statuses

\* The changes of state the contract's state machine has.
Transitions ==
    {<<"not_found", "waiting">>, <<"waiting", "active">>, <<"active", "partial">>,
     <<"partial", "active">>} \cup {<<st, "error">> : st \in Statuses}

\* C15: whenever a report changes the Status of the entry of OpenCode, Aider,
\* Codex or Crush, the change is one of not_found -> waiting, waiting ->
\* active, active -> partial, partial -> active, or any state -> error.
C15_Step ==
    \A n \in Watchers \cap DOMAIN ToolStatuses :
        n \in DOMAIN ToolStatuses' =>
            \/ EntryIn(ToolStatuses', toolHeap', n).Status = Entry(n).Status
            \/ <<Entry(n).Status, EntryIn(ToolStatuses', toolHeap', n).Status>>
                   \in Transitions
C15_StateMachine == [][C15_Step]_vars

\* C16: only an entry of the DetectionOnly tier is ever configured, and once
\* an entry is configured no later step of the running dashboard changes its
\* Status.
C16_Tier ==
    \A n \in DOMAIN ToolStatuses :
        Entry(n).Status = "configured" => Entry(n).Tier = TierDetectionOnly
C16_Step ==
    \A n \in DOMAIN ToolStatuses :
        Entry(n).Status = "configured" =>
            /\ n \in DOMAIN ToolStatuses'
            /\ EntryIn(ToolStatuses', toolHeap', n).Status = "configured"
C16_ConfiguredIsTerminal ==
    /\ [] C16_Tier
    /\ [][C16_Step]_vars

\* Copilot was found configured; afterwards Codex wrote to a rollout file, the
\* event was counted, and the clock went on: Copilot is configured still.
C16_Witness ==
    /\ "Copilot" \in DOMAIN ToolStatuses
    /\ Entry("Copilot").Status = "configured"
    /\ Entry("Copilot").Tier = TierDetectionOnly
    /\ "Codex" \in DOMAIN ToolStatuses
    /\ Entry("Codex").EventCount = 1
    /\ Entry("Codex").LastEventTime = 2
    /\ reported.status.Name = "Copilot"

\* What a report says of a source.
Reported(e) ==
    [Name |-> e.Name, Tier |-> e.Tier, Status |-> e.Status, Message |-> e.Message,
     DashboardURL |-> e.DashboardURL]

\* C17: a step that is not a call of SetToolStatus (IncrementToolEvents,
\* Reset, AddUsage, a read of the registry, the passage of time, a change of
\* the files) leaves the Name, Tier, Status, Message and DashboardURL of every
\* entry as they were.
C17_Step ==
    reported'.calls = reported.calls =>
        \A n \in DOMAIN ToolStatuses :
            /\ n \in DOMAIN ToolStatuses'
            /\ Reported(EntryIn(ToolStatuses', toolHeap', n)) = Reported(Entry(n))
C17_OnlyReportsChangeState == [][C17_Step]_vars

\* Codex was reported as partial; a rollout file was then written and the
\* event counted at time 2: the entry is partial still, with its message.
C17_Witness ==
    /\ "Codex" \in DOMAIN ToolStatuses
    /\ Entry("Codex").Status = "partial"
    /\ Entry("Codex").Message = "disabled (set [otel] exporter in config.toml)"
    /\ Entry("Codex").EventCount = 1
    /\ Entry("Codex").LastEventTime = 2
    /\ wpc["Codex"] = "select"
    /\ wpc["main"] = "tui"

\* ---------------------------------------------------------------- history
Windows == {"today", "week"}

\* C18: the per-model list GetHistoricalUsage returns is ordered by cost, the
\* greater first, and models of equal cost by model identifier, the lesser
\* first, so that one store yields one sequence.
C18_OrderedByCostThenModel ==
    \A window \in Windows :
        /\ \A r \in GetHistoricalUsage(DB, window, TRUE) :
              \A i, j \in 1..Len(r.usages) :
                  i < j =>
                     \/ r.usages[i].Cost > r.usages[j].Cost
                     \/ /\ r.usages[i].Cost = r.usages[j].Cost
                        /\ ModelLess(r.usages[i].Model, r.usages[j].Model)
        /\ Cardinality(GetHistoricalUsage(DB, window, TRUE)) = 1

\* A query that succeeded and found nothing in its window.
NoSpend == [usages |-> << >>, total |-> 0, err |-> ""]

\* C19: when the history query of the last tick failed, the TUI does not show
\* what it shows after a query that succeeded and found $0 spent; and when
\* whatif's query failed, whatif does not print what it prints when the query
\* succeeded and found no usage.
C19_FailureIsShown ==
    /\ (tui.pc = "idle" /\ tui.last = "history" /\ tui.err) =>
           View(tui.m, DB, usage_events, now)
              # View(Update_History(tui.m, NoSpend), "open", << >>, now)
    /\ (cli.pc = "done" /\ cli.err) => cli.out # whatIfCmd(NoSpend)

\* The live session and the registry.
session == <<SessionCost, SessionUsages, StartTime, heap, ToolStatuses, toolHeap>>

\* C20: a history query, by the TUI's tick in the views today and week or by
\* whatif, with the store open or not and the query succeeding or not, leaves
\* SessionCost, SessionUsages, StartTime and ToolStatuses as they were; and a
\* Reset leaves the processes' handles of the store and what a history query
\* that reaches the store returns, for every window, as they were (one that
\* does not reach it returns the error whatever the store holds).
C20_Step ==
    /\ (tui'.flip # tui.flip /\ tui'.last = "history") => UNCHANGED session
    /\ (cli.pc = "GetHistoricalUsage" /\ cli'.pc = "done") => UNCHANGED session
    /\ (tui'.flip # tui.flip /\ tui'.last = "r") =>
           /\ UNCHANGED <<DB, cli>>
           /\ \A window \in Windows, db \in {"nil", "open"}, ok \in BOOLEAN :
                 (db = "open" /\ ok) =>
                     GetHistoricalUsage(db, window, ok)' = GetHistoricalUsage(db, window, ok)
C20_HistoryAndSessionApart == [][C20_Step]_vars

\* Two records were pushed and stored, the session was reset at time 2, and
\* the tick of the week view then found the week's spend, the two records
\* included, while the session stayed empty.
C20_Witness ==
    /\ Len(usage_events) = 5
    /\ SessionUsages = NilSlice
    /\ SessionCost = 0
    /\ StartTime = 2
    /\ tui.last = "history"
    /\ tui.m.activeView = "week"
    /\ ~tui.err
    /\ tui.m.total = 7 * Cent
    /\ Len(tui.m.rows) = 2

\* The rows of the store at or after the cutoff of a window: the local
\* midnight of the current day, or now less 7 days.
Midnight == CHOOSE d \in {k * QuantaPerDay : k \in 0..MaxTime} : d <= now /\ now < d + QuantaPerDay
Cutoff(window) == IF window = "today" THEN Midnight ELSE now - 7 * QuantaPerDay
InWindow(window) == SelectSeq(usage_events, LAMBDA e : e.timestamp >= Cutoff(window))
OfModel(rows, m) == SelectSeq(rows, LAMBDA e : e.model = m)

\* C21: a history query that reaches the store aggregates exactly the rows
\* at or after the cutoff of its window: its entries are the models of those
\* rows, one entry a model, each with the sums of that model's rows in the
\* window; its total is the sum of the costs of those rows, and equals the
\* sum of the entries' costs. Rows before the cutoff count nowhere.
C21_WindowAggregates ==
    \A window \in Windows :
        \A r \in GetHistoricalUsage("open", window, TRUE) :
            \A rows \in {InWindow(window)} :
                /\ r.err = ""
                /\ r.total = SumOver(rows, "cost")
                /\ r.total = SumCost(r.usages)
                /\ {r.usages[i].Model : i \in 1..Len(r.usages)}
                      = {rows[i].model : i \in 1..Len(rows)}
                /\ \A i, j \in 1..Len(r.usages) :
                      r.usages[i].Model = r.usages[j].Model => i = j
                /\ \A i \in 1..Len(r.usages) :
                      \A mine \in {OfModel(rows, r.usages[i].Model)} :
                          /\ r.usages[i].Cost = SumOver(mine, "cost")
                          /\ r.usages[i].PromptTokens = SumOver(mine, "prompt_tokens")
                          /\ r.usages[i].CompletionTokens = SumOver(mine, "completion_tokens")

\* The store holds a row older than a week, one of yesterday, one of today
\* and one the watcher recorded in this run; the tick of the today view found
\* the two rows of today, and the week holds the row of yesterday as well.
C21_Witness ==
    /\ DB = "open"
    /\ Len(usage_events) = 4
    /\ Len(InWindow("today")) = 2
    /\ Len(InWindow("week")) = 3
    /\ tui.pc = "idle"
    /\ tui.last = "history"
    /\ tui.m.activeView = "today"
    /\ ~tui.err
    /\ tui.m.total = 4 * Cent
    /\ Len(tui.m.rows) = 2

\* ---------------------------------------------------------------- sources
\* What a watcher observes in a step: the message file parseMessageFile reads,
\* the line a turn of processAiderLogFile's loop takes.
ObservesMessage ==
    /\ wpc["OpenCode"] = "select"
    /\ events["OpenCode"] # << >>
    /\ events'["OpenCode"] = Tail(events["OpenCode"])
ObservedMessage == fs.messages[Head(events["OpenCode"]).Name]
HasTokens(msg) == msg.Json /\ ~(msg.Tokens.Input = 0 /\ msg.Tokens.Output = 0)
ObservesLine(p) ==
    /\ wpc[p] = "processAiderLogFile"
    /\ wloc[p].lines # << >>
    /\ wloc'[p].lines = Tail(wloc[p].lines)
ObservedLine(p) == Head(wloc[p].lines)

\* C22: a message file or a log line observed with no tokens leaves the set
\* of records seen as it was, and once the same record (the one message id,
\* the one user, model and time of the log lines) is observed with tokens, the
\* ledger has been given it exactly once, however often it is observed.
C22_Step ==
    /\ (ObservesMessage /\ ObservedMessage.Json /\ ~HasTokens(ObservedMessage)) =>
           UNCHANGED processedMessageIDs
    /\ (ObservesMessage /\ HasTokens(ObservedMessage)) => seen'.pushed["OpenCode"] = 1
    /\ \A p \in {"Aider"} :
          /\ (ObservesLine(p) /\ ObservedLine(p).Json /\ ObservedLine(p).TotalTokens = 0) =>
                 UNCHANGED processedAiderEvents
          /\ (ObservesLine(p) /\ ObservedLine(p).Json /\ ObservedLine(p).TotalTokens # 0) =>
                 seen'.pushed[p] = 1
C22_ZeroTokensNotSeen == [][C22_Step]_vars

\* The records of the ledger that came from OpenCode's message files.
MessageModels == {v.ModelID \o " (" \o v.ProviderID \o ")" : v \in MsgValues}
MessageRecords == SelectSeq(Records, LAMBDA u : u.Model \in MessageModels)
\* The calls of IncrementToolEvents("OpenCode") made so far.
MessageCalls ==
    EventCount("OpenCode")
        + (IF wpc["OpenCode"] = "parseMessageFile_IncrementToolEvents" THEN 1 ELSE 0)

\* C23: whatever Create and Write events arrive for the message files, in
\* whatever order with the handler's steps, the writes and the Resets, the
\* ledger holds at most one record a message id, and IncrementToolEvents has
\* been called at most once a message id: a record is pushed only in the step
\* that finds its id unmarked and marks it, and no mark is ever taken back.
C23_State ==
    /\ Len(MessageRecords) <= Cardinality(MsgIds \cap processedMessageIDs)
    /\ seen.pushed["OpenCode"] <= Cardinality(MsgIds \cap processedMessageIDs)
    /\ MessageCalls <= seen.pushed["OpenCode"]
C23_Step ==
    /\ processedMessageIDs \subseteq processedMessageIDs'
    /\ seen'.pushed["OpenCode"] # seen.pushed["OpenCode"] =>
          /\ ObservesMessage
          /\ ObservedMessage.ID \notin processedMessageIDs
          /\ ObservedMessage.ID \in processedMessageIDs'
          /\ seen'.pushed["OpenCode"] = seen.pushed["OpenCode"] + 1
C23_OncePerMessage == []C23_State /\ [][C23_Step]_vars

\* Three events and all of them handled: two writes of the message file, with
\* tokens at the last, and a Reset at time 2, after which the ledger holds the
\* message or nothing. The message was pushed once and counted once.
C23_Witness ==
    /\ seen.events = 3
    /\ \A w \in Watchers : events[w] = << >> /\ wpc[w] = "select"
    /\ fs.aiderLog = NoLog /\ fs.crushDB = NoCrushDB /\ fs.rollout = << >>
    /\ "msg_1" \in DOMAIN fs.messages
    /\ HasTokens(fs.messages["msg_1"])
    /\ StartTime = 2
    /\ seen.pushed["OpenCode"] = 1
    /\ EventCount("OpenCode") = 1
    /\ processedMessageIDs = {"msg_1"}

\* The records of the ledger that came from Crush's session rows, and a step
\* of processCrushDB that pushes one.
CrushRecords == SelectSeq(Records, LAMBDA u : u.Model = "crush-unknown")
PushesRow(p) ==
    /\ wpc[p] = "processCrushDB"
    /\ seen'.pushed["Crush"] = seen.pushed["Crush"] + 1

\* C24: a poll that pushes for a session row adds what the row's cumulative
\* totals have grown by since the row was last observed, so that after the
\* push what the ledger holds of the row is no more than the row's cumulative
\* value (and is that value when no Reset came between), and what was recorded
\* of the row in the store, which no Reset touches, is that value.
C24_Step ==
    \A p \in {"Crush"} :
        PushesRow(p) =>
            \A row \in {Head(wloc[p].lines)} :
                /\ SumCost(CrushRecords)' <= row.Cost
                /\ SumOver(CrushRecords', "PromptTokens") <= row.PromptTokens
                /\ DB = "open" =>
                      /\ SumOver(usage_events', "cost") = row.Cost
                      /\ SumOver(usage_events', "prompt_tokens") = row.PromptTokens
C24_CrushAddsDelta == [][C24_Step]_vars

\* A turn of processCrushDB's loop, and the row it takes.
AtRow(p) ==
    /\ wpc[p] = "processCrushDB"
    /\ wloc[p].lines # << >>
TakesRow(p) == AtRow(p) /\ (wpc'[p] # wpc[p] \/ wloc'[p] # wloc[p])
TakenRow(p) == Head(wloc[p].lines)
Advanced(row) ==
    \/ row.ID \notin DOMAIN processedCrushSessions
    \/ row.UpdatedAt > processedCrushSessions[row.ID]

\* C25: a turn of processCrushDB that takes a row whose updated_at is not
\* greater than the one stored when the row was last processed changes
\* nothing: no record reaches the ledger, no row the store, no call of
\* IncrementToolEvents follows and the stored updated_at stays; and a record
\* is pushed for a row only when the row is new or its updated_at advanced.
C25_Step ==
    \A p \in {"Crush"} :
        /\ (TakesRow(p) /\ wpc'[p] # wpc[p] /\ wloc'[p] = wloc[p]) =>
               Advanced(TakenRow(p))
        /\ (TakesRow(p) /\ ~Advanced(TakenRow(p))) =>
               /\ UNCHANGED <<ledger, store, registry, processedCrushSessions, seen>>
               /\ wpc'[p] # "processCrushDB_IncrementToolEvents"
               /\ EventCount("Crush")' = EventCount("Crush")
C25_OnlyAdvancedRows == [][C25_Step]_vars

\* The third event is handled: the database was created, a Write led to a
\* push for the row, and the scan after a later Write takes the row again,
\* its updated_at being the one stored.
C25_Witness ==
    /\ seen.events = 3
    /\ events["Crush"] = << >>
    /\ seen.pushed["Crush"] = 1
    /\ EventCount("Crush") = 1
    /\ AtRow("Crush")
    /\ ~Advanced(TakenRow("Crush"))
    /\ TakenRow("Crush").UpdatedAt = processedCrushSessions["ses_1"]

\* The Codex goroutine ends the handling of a Write after which the rollout
\* file held nothing that json.Unmarshal accepts.
HandledMalformedRollout ==
    /\ wpc["Codex"] = "CodexWatcher_IncrementToolEvents"
    /\ wpc'["Codex"] = "select"
    /\ wloc["Codex"].lines # << >>
    /\ \A i \in 1..Len(wloc["Codex"].lines) : ~wloc["Codex"].lines[i].Json

\* C26: a message file, a log line or a rollout file that json.Unmarshal
\* rejects changes nothing of the core: the ledger, the store and the registry
\* stay as they are, and no call of IncrementToolEvents follows for it.
C26_Step ==
    /\ (ObservesMessage /\ ~ObservedMessage.Json) =>
           /\ UNCHANGED <<ledger, store, registry, seen>>
           /\ wpc'["OpenCode"] = "select"
    /\ \A p \in {"Aider"} :
          (ObservesLine(p) /\ ~ObservedLine(p).Json) =>
              /\ UNCHANGED <<ledger, store, registry, seen>>
              /\ wpc'[p] = "processAiderLogFile"
    /\ HandledMalformedRollout =>
           /\ UNCHANGED <<ledger, store>>
           /\ EventCount("Codex")' = EventCount("Codex")
C26_MalformedChangesNothing == [][C26_Step]_vars

\* ------------------------------------------------------- store and ledger
\* A call of AddUsageWithTool is made and returns.
CallsAddUsageWithTool == obs'.used = obs.used + 1

\* C27: a call of AddUsageWithTool changes the ledger as the call of AddUsage
\* with the same model, tokens and cost does, with the store open and with
\* the store never initialised: the record is appended and the cost added;
\* the call returns nothing to its caller; and it can be made in either case.
\* A write that fails leaves the store as it was.
C27_Step ==
    CallsAddUsageWithTool =>
        /\ \E a \in HistoryArgs :
              /\ AddUsage(a.model, a.prompt, a.completion, a.cost)
              /\ Records' = Records \o <<[Model |-> a.model, PromptTokens |-> a.prompt,
                                          CompletionTokens |-> a.completion,
                                          TotalTokens |-> a.prompt + a.completion,
                                          Cost |-> a.cost, Timestamp |-> now]>>
              /\ SessionCost' = SessionCost + a.cost
        /\ UNCHANGED <<pc, ret, tui, cli>>
        /\ DB = "nil" => UNCHANGED usage_events
        /\ DB = "open" => Len(usage_events') = Len(usage_events) + 1
C27_CanCall == obs.used < MaxCalls => ENABLED Producer_AddUsageWithTool
C27_LedgerWhateverTheStore == []C27_CanCall /\ [][C27_Step]_vars

\* The store was never initialised, two calls were made, and the ledger
\* holds their two records and their cost.
C27_Witness ==
    /\ DB = "nil"
    /\ obs.used = 2
    /\ Len(Records) = 2
    /\ SessionCost = 4 * Cent
    /\ usage_events \in InitStores

\* ------------------------------------------------------------ C28
\* A task is inside a call to the tracker.
InCall(p) == pc[p] # "idle"

\* C28: under fair scheduling, every call a task has made to AddUsage, Reset,
\* GetSessionCost, GetBurnRatePerHour, GetUsages or GetSummary takes the lock
\* it needs and returns, GetSummary's second read lock behind a waiting
\* writer included.
C28_NoCallBlocksForever == \A p \in Tasks : InCall(p) ~> ~InCall(p)

\* ------------------------------------------------------------ C29
\* A task is in a call to the store: storage.RecordUsage of AddUsageWithTool,
\* storage.GetUsageSummary of GetHistoricalUsage.
AtStore(p) ==
    pc[p] \in {"AddUsageWithTool_RecordUsage", "GetHistoricalUsage_GetUsageSummary"}

\* A task holds the tracker's lock, for writing or for reading.
HoldsLock(p) == mu.w = p \/ mu.r[p] > 0

\* A task is inside the locked part of a call and its next statement cannot run.
Blocked(q) ==
    InCall(q) /\ ~AtStore(q) /\ ~ENABLED (Proceed(q) \/ GetHistoricalUsage_Switch(q))

\* C29: a task that is in a call to the store holds the tracker's lock neither
\* for writing nor for reading, and while it stays there every other task can
\* start its calls as if the task were idle and is blocked, if at all, by a
\* lock some other task holds.
C29_StoreOutsideLock ==
    \A p \in Tasks :
       AtStore(p) =>
          /\ ~HoldsLock(p)
          /\ \A q \in Tasks \ {p} :
                /\ Blocked(q) => \E r \in Tasks \ {p} : HoldsLock(r)
                /\ (pc[q] = "idle" /\ q \in Readers /\ mu.w = "none")
                      => ENABLED Call_GetSessionCost(q)
                /\ (pc[q] = "idle" /\ q \in Writers /\ mu.w = "none"
                      /\ obs.used < MaxCalls) => ENABLED Call_Reset(q)

\* Both store calls are under way, the database open, while another task is
\* inside AddUsage or Reset with the write lock.
C29_Witness ==
    /\ DB = "open"
    /\ \E p \in Writers : pc[p] = "AddUsageWithTool_RecordUsage"
    /\ \E p \in Readers : pc[p] = "GetHistoricalUsage_GetUsageSummary"
    /\ \E q \in Writers : InWrite(q)

\* ------------------------------------------------------------ C30
\* The Status the registry holds for a tool, "" when it holds none.
StatusNow(n) ==
    IF n \in DOMAIN ToolStatuses THEN toolHeap[ToolStatuses[n]].Status ELSE ""

\* The source was reported as absent.
ReportedAbsent(w) == StatusNow(w) \in {"not_found", "waiting"}

\* The source's files are on disk.
OnDisk(w) ==
    CASE w = "OpenCode" -> fs.messages # EmptyMap
      [] w = "Aider" -> fs.aiderLog.exists
      [] w = "Codex" -> fs.rollout # << >>
      [] w = "Crush" -> fs.crushDB.exists

\* The dashboard runs, the source reported as absent and nothing of it on disk.
RunsWithout(w) == wpc["main"] = "tui" /\ ReportedAbsent(w) /\ ~OnDisk(w)

\* The source is picked up: once its files are on disk it is in the end
\* reported as active.
PickedUp(w) == [](RunsWithout(w) => [](OnDisk(w) => <>(StatusNow(w) = "active")))

\* C30: the dashboard starts whatever is missing (main reaches the TUI with a
\* ToolStatus for each of the four sources), and a source that was reported
\* as absent at startup and whose files appear while the dashboard runs is in
\* the end reported as active.
C30_AbsentSourcePickedUp ==
    /\ <>(wpc["main"] = "tui")
    /\ [](wpc["main"] = "tui" => Watchers \subseteq DOMAIN ToolStatuses)
    /\ \A w \in Watchers : PickedUp(w)

\* ------------------------------------------------------------ C32
\* The entry a pointer the TUI holds leads to, in the heap h.
HeldEntry(h, i) == h[held[i]]

\* C32: the list GetToolStatuses returned is a snapshot: as long as the caller
\* holds it, no field of its entries changes, whatever IncrementToolEvents
\* and SetToolStatus do afterwards.
C32_StatusesAreSnapshot ==
    [][held' = held =>
          \A i \in DOMAIN held : HeldEntry(toolHeap', i) = HeldEntry(toolHeap, i)]_vars

\* ------------------------------------------------------------ C33
\* The usage records the four watchers pushed so far.
RECURSIVE PushedBy(_)
PushedBy(ws) ==
    IF ws = {} THEN 0
    ELSE LET w == CHOOSE x \in ws : TRUE IN seen.pushed[w] + PushedBy(ws \ {w})

\* C33: a source of the DetectionOnly tier never contributes to the session:
\* Copilot's entry is of that tier, an entry of that tier has EventCount 0 and
\* no LastEventTime, every record of the session was pushed by one of the
\* four FullTracking watchers and no row of the store names Copilot.
C33_DetectionOnlyAddsNothing ==
    /\ "Copilot" \in DOMAIN ToolStatuses =>
          toolHeap[ToolStatuses["Copilot"]].Tier = TierDetectionOnly
    /\ \A a \in DOMAIN toolHeap :
          toolHeap[a].Tier = TierDetectionOnly =>
             toolHeap[a].EventCount = 0 /\ toolHeap[a].LastEventTime = 0
    /\ \A a \in DOMAIN toolHeap : toolHeap[a].Name \in Watchers <=> toolHeap[a].Tier = TierFullTracking
    /\ SessionUsages.len <= PushedBy(Watchers)
    /\ \A i \in 1..Len(usage_events) : usage_events[i].tool # "Copilot"

\* Copilot was detected, and a FullTracking source has pushed a record and
\* counted its event since.
C33_Witness ==
    /\ "Copilot" \in DOMAIN ToolStatuses
    /\ SessionUsages.len > 0
    /\ \E w \in Watchers :
          w \in DOMAIN ToolStatuses /\ toolHeap[ToolStatuses[w]].EventCount > 0

\* ------------------------------------------------------------ C40
\* GetHistoricalUsage is at its switch with a window it does not know, and
\* the step is the task's.
SwitchesUnknownWindow(p) ==
    /\ pc[p] = "GetHistoricalUsage_Switch"
    /\ loc[p].window \notin {"today", "week"}
    /\ pc'[p] # pc[p]

C40_Step ==
    \A p \in Readers :
       SwitchesUnknownWindow(p) =>
          /\ pc'[p] = "GetHistoricalUsage_done"
          /\ ret'[p].kind = "history"
          /\ ret'[p].err # ""
          /\ ret'[p].usages = << >>
          /\ ret'[p].total = 0
          /\ UNCHANGED <<mu, ledger, store, registry>>

\* C40: GetHistoricalUsage with a window other than "today" or "week" returns
\* an error, no usages and the total 0; it returns from the switch, before the
\* query of the store, and leaves the tracker, the store and the registry as
\* they were.
C40_UnknownWindowIsAnError == [][C40_Step]_vars

\* The call with the unknown window has returned its error while the store
\* was open and held a row.
C40_Witness ==
    /\ DB = "open"
    /\ usage_events # << >>
    /\ \E p \in Readers :
          /\ pc[p] = "GetHistoricalUsage_done"
          /\ ret[p].kind = "history"
          /\ ret[p].err = "invalid window"

\* ------------------------------------------------------------ C35
\* Update handles a key press in this step.
HandlesKey == tui'.flip # tui.flip /\ tui'.last \in {"r", "s", "t", "w"}

\* Update returns from a tickMsg in this step.
ReturnsFromTick ==
    /\ tui'.pc = "idle"
    /\ \/ tui.pc = "GetBurnRatePerHour"
       \/ tui'.flip # tui.flip /\ tui'.last = "history"

C35_State ==
    /\ tui.m.activeView \in {"session", "today", "week"}
    /\ tui.pc = "idle" => tui.ticks = 1
    /\ tui.pc # "idle" =>
          /\ tui.ticks = 0
          /\ obs.used < MaxCalls => ENABLED Producer_AddUsageWithTool

C35_Step ==
    /\ HandlesKey => tui'.ticks = tui.ticks
    /\ ReturnsFromTick => tui'.ticks = 1

AcceptedAiderKeys == {k \in processedAiderEvents : k[4] # 0}

\* The scan is at a line whose key has been entered before.
RescansAccepted ==
    /\ wpc["Aider"] = "processAiderLogFile"
    /\ wloc["Aider"].lines # << >>
    /\ Head(wloc["Aider"].lines).Json
    /\ makeAiderEventKey(Head(wloc["Aider"].lines)) \in AcceptedAiderKeys

C36_Step ==
    /\ processedAiderEvents \subseteq processedAiderEvents'
    /\ RescansAccepted /\ wloc'["Aider"] # wloc["Aider"] =>
          UNCHANGED <<ledger, store, processedAiderEvents, seen>>

\* C36: scanning the whole of Aider's log anew on every write adds nothing
\* twice: the records the Aider parser has pushed are as many as the distinct
\* keys (user id, main model, time, total tokens) of the events with tokens
\* it has taken, one for each, however often the growing log is scanned and
\* however many lines share a key; the scan passes a line whose key it knows
\* without a change to the session, the store or the keys.
C36_AiderScanIdempotent ==
    /\ [](seen.pushed["Aider"] = Cardinality(AcceptedAiderKeys))
    /\ [][C36_Step]_vars

\* The log holds the same event on two lines, one record has been pushed
\* for it and a later scan is at one of the lines again.
C36_Witness ==
    /\ RescansAccepted
    /\ seen.pushed["Aider"] = 1
    /\ \E i, j \in DOMAIN fs.aiderLog.lines :
         /\ i < j
         /\ fs.aiderLog.lines[i].Json /\ fs.aiderLog.lines[j].Json
         /\ fs.aiderLog.lines[i].TotalTokens # 0
         /\ makeAiderEventKey(fs.aiderLog.lines[i]) = makeAiderEventKey(fs.aiderLog.lines[j])

\* ------------------------------------------------------------ C38
\* The "r" key is handled in this step.
ResetStep == seen'.events # seen.events /\ fs' = fs /\ events' = events

\* parseMessageFile runs in this step for a message whose id it has taken.
ReobservesMessage ==
    /\ wpc["OpenCode"] = "select"
    /\ events["OpenCode"] # << >>
    /\ Head(events["OpenCode"]).Name \in DOMAIN fs.messages
    /\ fs.messages[Head(events["OpenCode"]).Name].ID \in processedMessageIDs
    /\ Len(events'["OpenCode"]) < Len(events["OpenCode"])

\* processAiderLogFile passes in this step a line whose key it has taken.
ReobservesAiderEvent ==
    /\ wpc["Aider"] = "processAiderLogFile"
    /\ wloc["Aider"].lines # << >>
    /\ makeAiderEventKey(Head(wloc["Aider"].lines)) \in processedAiderEvents
    /\ wloc'["Aider"] # wloc["Aider"]

\* The row processCrushDB is at has the updated_at it has stored.
KnownCrushRow ==
    /\ wpc["Crush"] = "processCrushDB"
    /\ wloc["Crush"].lines # << >>
    /\ Head(wloc["Crush"].lines).ID \in DOMAIN processedCrushSessions
    /\ processedCrushSessions[Head(wloc["Crush"].lines).ID]
          = Head(wloc["Crush"].lines).UpdatedAt

ReobservesCrushRow == KnownCrushRow /\ wloc'["Crush"] # wloc["Crush"]

C38_Step ==
    /\ ResetStep =>
          /\ SessionCost' = 0 /\ SessionUsages' = NilSlice
          /\ UNCHANGED <<parsers, store>>
    /\ ReobservesMessage \/ ReobservesAiderEvent \/ ReobservesCrushRow =>
          UNCHANGED <<ledger, store, parsers, seen>>

\* C38: Reset empties the session and nothing else: the message ids, event
\* keys and session rows the parsers have taken stay as they are, so that a
\* parser that comes again, after a Reset as before it, upon an OpenCode
\* message whose id it has taken, an Aider event whose key it has taken or a
\* Crush row with the updated_at it stored adds nothing to the session or the
\* store.
C38_ResetKeepsDedup == [][C38_Step]_vars

\* Crush's row was pushed, the session was reset and is empty, and the scan
\* after a further write of crush.db is at the unchanged row.
C38_Witness ==
    /\ KnownCrushRow
    /\ seen.pushed["Crush"] = 1
    /\ SessionUsages = NilSlice
    /\ SessionCost = 0

\* ------------------------------------------------------------ C37
\* The costs of the table's rows, in the digits shown, added up.
RECURSIVE RowsCost(_)
RowsCost(rows) == IF rows = << >> THEN 0 ELSE rows[1][4] + RowsCost(Tail(rows))

\* C37: in the session view the total shown after a tick is the sum of the
\* costs of the rows shown after that tick, whatever a watcher pushes while
\* Update handles the tick.
C37_TotalIsSumOfRows ==
    tui.pc = "idle" /\ tui.last = "tick" =>
        View(tui.m, DB, usage_events, now).total = RowsCost(tui.m.rows)

\* ------------------------------------------------------------ C39
\* parseMessageFile calls CalculateCost in this step and CalculateCost reads
\* the table.
ReadsTable ==
    /\ PricesMessage
    /\ fs.messages[Head(events["OpenCode"]).Name].ModelID \notin FreeModels
    /\ Len(events'["OpenCode"]) < Len(events["OpenCode"])

\* C39: the pricing table is never read while it is written: no call of
\* CalculateCost by a watcher goroutine reads the table while an assignment
\* of the background UpdatePricing is storing into it.
C39_NoReadDuringWrite == [][ReadsTable => pricing.writing = ""]_vars

\* ------------------------------------------------------------ C34
\* The entries of the response whose two prices are numbers.
Parsed(resp) ==
    {i \in DOMAIN resp.data : resp.data[i].Prompt.ok /\ resp.data[i].Completion.ok}
ParsedIds(resp) == {resp.data[i].ID : i \in Parsed(resp)}

\* UpdatePricing has returned nil after a fetch.
Fetched == pricing.upc = "done" /\ pricing.resp.kind = "ok"
\* UpdatePricing has returned an error.
FetchFailed == pricing.upc = "done" /\ pricing.err # ""

C34_State ==
    /\ Fetched =>
          /\ pricing.err = ""
          /\ pricing.lastFetchTime # 0
          /\ DOMAIN ModelPricing \subseteq DOMAIN pricing.table
          /\ \A i \in Parsed(pricing.resp) :
                LET model == pricing.resp.data[i]
                IN  /\ model.ID \in DOMAIN pricing.table
                    /\ pricing.table[model.ID].Input * NanosPerUnit
                          = model.Prompt.nanos * 1000000
                    /\ pricing.table[model.ID].Output * NanosPerUnit
                          = model.Completion.nanos * 1000000
          /\ \A k \in (DOMAIN pricing.table) \ ParsedIds(pricing.resp) :
                k \in DOMAIN ModelPricing /\ pricing.table[k] = ModelPricing[k]
    /\ FetchFailed =>
          /\ pricing.table = ModelPricing
          /\ pricing.lastFetchTime = 0

C34_Step ==
    /\ DOMAIN pricing.table \subseteq DOMAIN pricing'.table
    /\ pricing'.table # pricing.table => pricing'.lastFetchTime = pricing.lastFetchTime

\* C34: UpdatePricing only adds to the table or overwrites in it. After a
\* fetch that succeeded every fetched model whose prices are numbers is in
\* the table at its price per token times 1,000,000, every other entry is
\* the hardcoded one it was, no hardcoded entry is gone and lastFetchTime is
\* set; after a fetch, a status or a decoding that failed the table and
\* lastFetchTime are what they were.
C34_UpdateOnlyAdds == []C34_State /\ [][C34_Step]_vars

\* The fetch brought gpt-4o at $0.10 and $0.40 per million and a model
\* without a prompt price: gpt-4o is overwritten, the other is not entered,
\* gpt-4o-mini is as it was.
C34_Witness ==
    /\ Fetched
    /\ pricing.table["gpt-4o"] = [Input |-> 2, Output |-> 8]
    /\ "mock/unpriced" \notin DOMAIN pricing.table
    /\ pricing.table["gpt-4o-mini"] = ModelPricing["gpt-4o-mini"]
    /\ pricing.lastFetchTime = now

\* ------------------------------------------------------------ C31
\* The message of the event the OpenCode watcher takes next.
NextMessage == fs.messages[Head(events["OpenCode"]).Name]

\* parseMessageFile takes in this step a message that has tokens, whose id is
\* new and that comes without a cost.
TakesPricedMessage ==
    PricesMessage /\ Len(events'["OpenCode"]) < Len(events["OpenCode"])

\* What CalculateCost is to return for one prompt and one completion token.
CostOfOne(model) ==
    IF model \in FreeModels THEN 0
    ELSE IF model \in DOMAIN pricing.table
    THEN pricing.table[model].Input + pricing.table[model].Output
    ELSE pricing.table["gpt-4o-mini"].Input + pricing.table["gpt-4o-mini"].Output

C31_State ==
    /\ \A model \in PricedModels : CalculateCost(model, 1, 1) = CostOfOne(model)
    /\ seen.pushed["OpenCode"] = Cardinality(processedMessageIDs)

C31_Step ==
    TakesPricedMessage =>
        /\ processedMessageIDs' = processedMessageIDs \cup {NextMessage.ID}
        /\ seen'.pushed["OpenCode"] = seen.pushed["OpenCode"] + 1
        /\ SessionCost' = SessionCost + CostOfOne(NextMessage.ModelID)

\* C31: no price that is not known keeps a usage from being taken:
\* CalculateCost gives a cost for every model id, that of gpt-4o-mini for a
\* model the table does not have and 0 for a free one, and every message with
\* tokens whose id is new is pushed to the tracker, once, at that cost.
C31_PricingNeverPreventsAcceptance == []C31_State /\ [][C31_Step]_vars

====
